---- MODULE Spec2Model ----
(***************************************************************************)
(* Run-Limiter: an ESP8266 controller that closes a solid-state relay at   *)
(* power-up and opens it when the device has been powered longer than a    *)
(* configured time, reporting over MQTT and configured over serial/MQTT.   *)
(*                                                                         *)
(* Text is modelled as sequences of one-character strings, so that the     *)
(* strtok/strcmp/atoi based command parser is computed character by        *)
(* character as the firmware computes it.                                  *)
(***************************************************************************)
EXTENDS Integers, Sequences, FiniteSets, TLC

(***************************************************************************)
(* Bounds of the model (not program constants).                            *)
(***************************************************************************)
MaxBoots == 2          \* reboots followed in one behaviour
MaxCount == 2          \* history counters saturate at this value

(***************************************************************************)
(* Program constants (runLimiter.h).                                       *)
(***************************************************************************)
WIFI_CONNECTION_ATTEMPTS == 15
VALID_SETTINGS_FLAG == 55984
SSID_SIZE == 100
PASSWORD_SIZE == 50
ADDRESS_SIZE == 30
USERNAME_SIZE == 50
MQTT_CLIENTID_SIZE == 25
MQTT_MAX_TOPIC_SIZE == 50
MQTT_MAX_MESSAGE_SIZE == 15
DEFAULT_MQTT_BROKER_PORT == 1883
DEFAULT_MAX_RUNTIME_SECONDS == 60 * 5
DEFAULT_MQTT_TOPIC_ROOT ==
  <<"e","s","p","8","2","6","6","/","r","u","n","l","i","m","i","t","e","r","/">>
MQTT_CLIENT_ID_ROOT == <<"R","u","n","T","i","m","e","L","i","m","i","t","e","r">>
MQTT_TOPIC_RSSI == <<"r","s","s","i">>
MQTT_TOPIC_STATUS == <<"s","t","a","t","u","s">>
MQTT_TOPIC_COMMAND_REQUEST == <<"c","o","m","m","a","n","d">>
DEFAULT_MQTT_RUN_MESSAGE == <<"s","t","a","r","t","e","d">>
DEFAULT_MQTT_TIMEOUT_MESSAGE == <<"t","i","m","e","o","u","t">>
DEFAULT_MQTT_LWT_MESSAGE == <<"s","t","o","p","p","e","d">>
RELAY_ON == "HIGH"
RELAY_OFF == "LOW"
LED_ON == "LOW"
LED_OFF == "HIGH"

INT_MAX == 2147483647
INT_MIN == (0 - 2147483647) - 1
Half == 65536

(***************************************************************************)
(* unsigned int / unsigned long are 32 bits wide on the ESP8266.  A value  *)
(* is kept as its two 16-bit halves, hi * 65536 + lo, and the arithmetic   *)
(* below is arithmetic modulo 2^32.                                        *)
(***************************************************************************)
U32(n) == [hi |-> n \div Half, lo |-> n % Half]          \* for 0 <= n < 2^31
U32Zero == [hi |-> 0, lo |-> 0]
U32Max == [hi |-> Half - 1, lo |-> Half - 1]
U32Lt(a, b) == a.hi < b.hi \/ (a.hi = b.hi /\ a.lo < b.lo)
U32Geq(a, b) == ~U32Lt(a, b)
U32Gt(a, b) == U32Lt(b, a)
\* a + d modulo 2^32, for 0 <= d < 2^31
U32Add(a, d) ==
  LET l == a.lo + (d % Half)
  IN [hi |-> (a.hi + (d \div Half) + (l \div Half)) % Half, lo |-> l % Half]
\* a - b modulo 2^32
U32Sub(a, b) ==
  LET borrow == IF a.lo < b.lo THEN 1 ELSE 0
  IN [hi |-> (a.hi - b.hi - borrow + 2 * Half) % Half, lo |-> (a.lo - b.lo + Half) % Half]
\* a * k modulo 2^32, for 0 <= k < 2^15
U32Mul(a, k) ==
  LET l == a.lo * k
  IN [hi |-> (a.hi * k + (l \div Half)) % Half, lo |-> l % Half]
\* conversion of an int to unsigned int (two's complement)
ToUnsigned(n) ==
  IF n >= 0 THEN U32(n)
  ELSE LET m == (n + INT_MAX) + 1       \* n + 2^31, in 0 .. 2^31-1
       IN [hi |-> (m \div Half) + (Half \div 2), lo |-> m % Half]

(***************************************************************************)
(* Characters with a role in the parser.                                   *)
(***************************************************************************)
EQ == "="
CR == "<CR>"     \* character 13
LF == "<LF>"     \* character 10
Digits == <<"0","1","2","3","4","5","6","7","8","9">>

IsTerminator(c) == c = CR \/ c = LF

\* the names compared with strcmp() in processCommand
N_ssid == <<"s","s","i","d">>
N_wifipass == <<"w","i","f","i","p","a","s","s">>
N_broker == <<"b","r","o","k","e","r">>
N_brokerPort == <<"b","r","o","k","e","r","P","o","r","t">>
N_userName == <<"u","s","e","r","N","a","m","e">>
N_userPass == <<"u","s","e","r","P","a","s","s">>
N_lwtMessage == <<"l","w","t","M","e","s","s","a","g","e">>
N_runMessage == <<"r","u","n","M","e","s","s","a","g","e">>
N_timeoutMessage == <<"t","i","m","e","o","u","t","M","e","s","s","a","g","e">>
N_topicRoot == <<"t","o","p","i","c","R","o","o","t">>
N_maxRuntime == <<"m","a","x","R","u","n","t","i","m","e">>
N_resetmqttid == <<"r","e","s","e","t","m","q","t","t","i","d">>
N_debug == <<"d","e","b","u","g">>
N_factorydefaults == <<"f","a","c","t","o","r","y","d","e","f","a","u","l","t","s">>
N_reset == <<"r","e","s","e","t">>
V_yes == <<"y","e","s">>
V_false == <<"f","a","l","s","e">>
V_settings == <<"s","e","t","t","i","n","g","s">>

(***************************************************************************)
(* C library functions used by the parser.                                 *)
(***************************************************************************)
RECURSIVE SkipDelim(_)
SkipDelim(s) == IF s # <<>> /\ Head(s) = EQ THEN SkipDelim(Tail(s)) ELSE s

\* the number of characters before the first delimiter (all, if there is none)
TokenLen(s) ==
  IF \E k \in 1..Len(s) : s[k] = EQ
    THEN (CHOOSE k \in 1..Len(s) : s[k] = EQ /\ \A j \in 1..(k - 1) : s[j] # EQ) - 1
    ELSE Len(s)

\* strtok(s,"="): skips leading delimiters, returns the text up to the next
\* delimiter (NULL when nothing is left) and remembers the text after it.
Strtok(s) ==
  LET t == SkipDelim(s)
      n == TokenLen(t)
  IN IF t = <<>>
       THEN [null |-> TRUE, tok |-> <<>>, rest |-> <<>>]
       ELSE [null |-> FALSE, tok |-> SubSeq(t, 1, n), rest |-> SubSeq(t, n + 2, Len(t))]

DigitVal(c) == (CHOOSE i \in 1..10 : Digits[i] = c) - 1
IsDigit(c) == \E i \in 1..10 : Digits[i] = c
IsSpace(c) == c = " " \/ c = CR \/ c = LF

RECURSIVE SkipSpace(_)
SkipSpace(s) == IF s # <<>> /\ IsSpace(Head(s)) THEN SkipSpace(Tail(s)) ELSE s

\* the magnitude of the leading run of digits; over when it exceeds INT_MAX
RECURSIVE DigitsValue(_, _)
DigitsValue(s, acc) ==
  IF s = <<>> \/ ~IsDigit(Head(s)) THEN acc
  ELSE LET d == DigitVal(Head(s))
       IN IF acc.over \/ acc.v > 214748364 \/ (acc.v = 214748364 /\ d > 7)
            THEN DigitsValue(Tail(s), [v |-> INT_MAX, over |-> TRUE])
            ELSE DigitsValue(Tail(s), [v |-> acc.v * 10 + d, over |-> FALSE])

\* atoi(s) = (int)strtol(s,NULL,10): white space, optional sign, digits;
\* 0 when there is no digit; clamped to the range of a 32-bit long.
Atoi(s) ==
  LET t == SkipSpace(s)
      neg == t # <<>> /\ Head(t) = "-"
      u == IF t # <<>> /\ (Head(t) = "-" \/ Head(t) = "+") THEN Tail(t) ELSE t
      m == DigitsValue(u, [v |-> 0, over |-> FALSE])
  IN IF neg THEN (IF m.over THEN INT_MIN ELSE 0 - m.v)
     ELSE m.v

\* one "if the last character is CR or LF, cut it" statement
StripOne(s) == IF Len(s) > 0 /\ IsTerminator(s[Len(s)]) THEN SubSeq(s, 1, Len(s) - 1) ELSE s

(***************************************************************************)
(* The configuration record (typedef struct ... conf) and its initial      *)
(* member values.                                                          *)
(***************************************************************************)
conf ==
  [validConfig |-> 0, ssid |-> <<>>, wifiPassword |-> <<>>, brokerAddress |-> <<>>,
   brokerPort |-> DEFAULT_MQTT_BROKER_PORT, mqttUsername |-> <<>>,
   mqttUserPassword |-> <<>>, mqttTopicRoot |-> <<>>, mqttRunMessage |-> <<>>,
   mqttTimeoutMessage |-> <<>>, mqttLWTMessage |-> <<>>,
   maxRuntime |-> U32(DEFAULT_MAX_RUNTIME_SECONDS), debug |-> FALSE, mqttClientId |-> <<>>]

\* generateMqttClientId: the root followed by a pseudo-random hex text.  The
\* text is appended with strcat to the string literal of the root itself, so
\* rnd stands for whatever follows the root afterwards: the hex text of this
\* call, preceded by those of the earlier calls made since the boot.
generateMqttClientId(rnd) == MQTT_CLIENT_ID_ROOT \o rnd

\* a variant of the condition that leaves out the test of maxRuntime
SettingsComplete_NoRuntimeCheck(s) ==
  /\ Len(s.ssid) > 0 /\ Len(s.wifiPassword) > 0 /\ Len(s.brokerAddress) > 0
  /\ Len(s.mqttLWTMessage) > 0 /\ Len(s.mqttRunMessage) > 0
  /\ Len(s.mqttTimeoutMessage) > 0 /\ Len(s.mqttTopicRoot) > 0
  /\ s.brokerPort > 0 /\ s.brokerPort < 65535

\* the condition of saveSettings under which the record is deemed complete
SettingsComplete(s) ==
  /\ Len(s.ssid) > 0 /\ Len(s.ssid) <= SSID_SIZE
  /\ Len(s.wifiPassword) > 0 /\ Len(s.wifiPassword) <= PASSWORD_SIZE
  /\ Len(s.brokerAddress) > 0 /\ Len(s.brokerAddress) < ADDRESS_SIZE
  /\ Len(s.mqttLWTMessage) > 0 /\ Len(s.mqttLWTMessage) < MQTT_MAX_MESSAGE_SIZE
  /\ Len(s.mqttRunMessage) > 0 /\ Len(s.mqttRunMessage) < MQTT_MAX_MESSAGE_SIZE
  /\ Len(s.mqttTimeoutMessage) > 0 /\ Len(s.mqttTimeoutMessage) < MQTT_MAX_MESSAGE_SIZE
  /\ Len(s.mqttTopicRoot) > 0 /\ Len(s.mqttTopicRoot) < MQTT_MAX_TOPIC_SIZE
  /\ s.brokerPort > 0 /\ s.brokerPort < 65535
  /\ U32Gt(s.maxRuntime, U32Zero)

\* The memory image: the record, the derived flag, the flash copy, and the
\* number of EEPROM.put calls made so far by the operation under way.
Mem(s, valid, ee, puts) == [settings |-> s, settingsAreValid |-> valid, eeprom |-> ee, puts |-> puts]

\* a variant of saveSettings that writes the record to flash as it was on entry
saveSettings_PutOnEntry(m, rnd, commitOk) ==
  Mem([m.settings EXCEPT !.validConfig =
          IF SettingsComplete(m.settings) THEN VALID_SETTINGS_FLAG ELSE 0],
      SettingsComplete(m.settings), IF commitOk THEN m.settings ELSE m.eeprom, m.puts + 1)

\* saveSettings on memory image m; rnd is the text random() yields if a client
\* id has to be generated, commitOk what EEPROM.commit() returns.
saveSettings(m, rnd, commitOk) ==
  LET ok == SettingsComplete(m.settings)
      s1 == [m.settings EXCEPT !.validConfig = IF ok THEN VALID_SETTINGS_FLAG ELSE 0]
      s2 == IF Len(s1.mqttClientId) = 0
              THEN [s1 EXCEPT !.mqttClientId = generateMqttClientId(rnd)]
              ELSE s1
  IN Mem(s2, ok, IF commitOk THEN s2 ELSE m.eeprom, m.puts + 1)

\* a variant of initializeSettings that leaves the broker credentials alone
initializeSettings_KeepCredentials(m, rnd, commitOk) ==
  saveSettings([m EXCEPT !.settings =
                  [m.settings EXCEPT !.validConfig = 0, !.ssid = <<>>, !.wifiPassword = <<>>,
                     !.maxRuntime = U32(DEFAULT_MAX_RUNTIME_SECONDS), !.brokerAddress = <<>>,
                     !.brokerPort = DEFAULT_MQTT_BROKER_PORT,
                     !.mqttLWTMessage = DEFAULT_MQTT_LWT_MESSAGE,
                     !.mqttRunMessage = DEFAULT_MQTT_RUN_MESSAGE,
                     !.mqttTimeoutMessage = DEFAULT_MQTT_TIMEOUT_MESSAGE,
                     !.mqttTopicRoot = DEFAULT_MQTT_TOPIC_ROOT,
                     !.mqttClientId = generateMqttClientId(rnd), !.debug = FALSE]],
               rnd, commitOk)

initializeSettings(m, rnd, commitOk) ==
  LET s == [validConfig |-> 0, ssid |-> <<>>, wifiPassword |-> <<>>,
            maxRuntime |-> U32(DEFAULT_MAX_RUNTIME_SECONDS), brokerAddress |-> <<>>,
            brokerPort |-> DEFAULT_MQTT_BROKER_PORT,
            mqttLWTMessage |-> DEFAULT_MQTT_LWT_MESSAGE,
            mqttRunMessage |-> DEFAULT_MQTT_RUN_MESSAGE,
            mqttTimeoutMessage |-> DEFAULT_MQTT_TIMEOUT_MESSAGE,
            mqttTopicRoot |-> DEFAULT_MQTT_TOPIC_ROOT,
            mqttUsername |-> <<>>, mqttUserPassword |-> <<>>,
            mqttClientId |-> generateMqttClientId(rnd), debug |-> FALSE]
  IN saveSettings([m EXCEPT !.settings = s], rnd, commitOk)

\* a variant of loadSettings that takes every record read for a valid one
loadSettings_AlwaysValid(m) ==
  [m EXCEPT !.settings = m.eeprom, !.settingsAreValid = TRUE]

\* loadSettings: EEPROM.get, then the derived flag from the marker
loadSettings(m) ==
  [m EXCEPT !.settings = m.eeprom,
            !.settingsAreValid = (m.eeprom.validConfig = VALID_SETTINGS_FLAG)]

(***************************************************************************)
(* processCommand.                                                         *)
(***************************************************************************)
\* The members of conf that follow validConfig, in memory order, with their
\* sizes in bytes (int and unsigned int are 4 bytes wide and 4-byte aligned,
\* which leaves one unused byte before maxRuntime and two at the end).
Member(name, kind, size) == [name |-> name, kind |-> kind, size |-> size]
MemberLayout ==
  <<Member("ssid", "text", SSID_SIZE), Member("wifiPassword", "text", PASSWORD_SIZE),
    Member("brokerAddress", "text", ADDRESS_SIZE), Member("brokerPort", "int", 4),
    Member("mqttUsername", "text", USERNAME_SIZE),
    Member("mqttUserPassword", "text", PASSWORD_SIZE),
    Member("mqttTopicRoot", "text", MQTT_MAX_TOPIC_SIZE),
    Member("mqttRunMessage", "text", MQTT_MAX_MESSAGE_SIZE),
    Member("mqttTimeoutMessage", "text", MQTT_MAX_MESSAGE_SIZE),
    Member("mqttLWTMessage", "text", MQTT_MAX_MESSAGE_SIZE), Member("", "pad", 1),
    Member("maxRuntime", "unsigned", 4), Member("debug", "boolean", 1),
    Member("mqttClientId", "text", MQTT_CLIENTID_SIZE), Member("", "pad", 2)>>
MemberIndex(name) == CHOOSE k \in 1..Len(MemberLayout) : MemberLayout[k].name = name

\* the number of bytes between the start of member a and the start of member j
RECURSIVE MemberOffset(_, _)
MemberOffset(a, j) == IF j <= a THEN 0 ELSE MemberOffset(a, j - 1) + MemberLayout[j - 1].size

\* the bytes of a copied text: its characters and the terminator
NUL == "<NUL>"
CharCode == [c \in {NUL, "x"} |-> IF c = NUL THEN 0 ELSE 120]

\* the four bytes of an int or unsigned int, lowest first, and back
IntBytes(n) == [k \in 1..4 |-> (n \div (256 ^ (k - 1))) % 256]
UnsignedBytes(u) == <<u.lo % 256, u.lo \div 256, u.hi % 256, u.hi \div 256>>
BytesInt(b) ==
  b[1] + 256 * b[2] + 65536 * b[3] + 16777216 * (IF b[4] >= 128 THEN b[4] - 256 ELSE b[4])
BytesUnsigned(b) == [lo |-> b[1] + 256 * b[2], hi |-> b[3] + 256 * b[4]]
\* bytes cur with its first Len(chunk) bytes replaced by those of chunk
Overwritten(cur, chunk) ==
  [k \in 1..Len(cur) |-> IF k <= Len(chunk) THEN CharCode[chunk[k]] ELSE cur[k]]

\* strcpy(settings.<field>,val): the characters of val and the terminator are
\* written from the start of the array on, with no regard to its size.  A
\* value that does not fit runs on into the members that follow, as far as it
\* reaches (what lies beyond the record is not part of it).  Each text member
\* of the result is the C string that starts at the member; s is a record
\* whose texts end within their own arrays.
Strcpy(s, field, val) ==
  IF Len(val) < MemberLayout[MemberIndex(field)].size THEN [s EXCEPT ![field] = val]
  ELSE LET a == MemberIndex(field)
           bytes == val \o <<NUL>>
           Reached(j) == j >= a /\ MemberOffset(a, j) < Len(bytes)
           Chunk(j) == SubSeq(bytes, MemberOffset(a, j) + 1,
                              IF MemberOffset(a, j) + MemberLayout[j].size < Len(bytes)
                                THEN MemberOffset(a, j) + MemberLayout[j].size ELSE Len(bytes))
           NewValue(j) ==
             CASE MemberLayout[j].kind = "text" -> SubSeq(val, MemberOffset(a, j) + 1, Len(val))
               [] MemberLayout[j].kind = "int" ->
                    BytesInt(Overwritten(IntBytes(s[MemberLayout[j].name]), Chunk(j)))
               [] MemberLayout[j].kind = "unsigned" ->
                    BytesUnsigned(Overwritten(UnsignedBytes(s[MemberLayout[j].name]), Chunk(j)))
               [] MemberLayout[j].kind = "boolean" -> Chunk(j)[1] # NUL
       IN [f \in DOMAIN s |->
             IF \E j \in 1..Len(MemberLayout) : MemberLayout[j].name = f /\ Reached(j)
               THEN NewValue(MemberIndex(f)) ELSE s[f]]

\* the two strtok calls at the head of processCommand: nme, then val
ParseName(cmd) == Strtok(cmd)
ParseValue(cmd) ==
  LET n == Strtok(cmd)
  IN IF n.null THEN [null |-> TRUE, tok |-> <<>>, rest |-> <<>>] ELSE Strtok(n.rest)

\* "Get rid of the carriage return and/or linefeed. Twice because could have both."
StripTerminators(s) == StripOne(StripOne(s))

\* the result of a command: the memory image after it, the value returned,
\* and whether the device restarted (ESP.restart() or a crash) instead of returning
CmdResult(m, ret, restart) == [mem |-> m, ret |-> ret, restart |-> restart]

\* a plausible slip: the action commands not looking at their value
IsYes_AnyValue(val) == TRUE

\* strcmp(val,"yes")==0, the second condition of the three action commands
IsYes(val) == val = V_yes

\* The chain of strcmp tests of processCommand for a non-empty name.
ApplyCommand(m, nme, val, rnd, commitOk) ==
  LET s == m.settings
      set(field, v) == CmdResult(saveSettings([m EXCEPT !.settings = Strcpy(s, field, v)], rnd, commitOk), TRUE, FALSE)
      setnum(field, v) == CmdResult(saveSettings([m EXCEPT !.settings = [s EXCEPT ![field] = v]], rnd, commitOk), TRUE, FALSE)
  IN CASE nme = N_ssid -> set("ssid", val)
       [] nme = N_wifipass -> set("wifiPassword", val)
       [] nme = N_broker -> set("brokerAddress", val)
       [] nme = N_brokerPort -> setnum("brokerPort", Atoi(val))
       [] nme = N_userName -> set("mqttUsername", val)
       [] nme = N_userPass -> set("mqttUserPassword", val)
       [] nme = N_lwtMessage -> set("mqttLWTMessage", val)
       [] nme = N_runMessage -> set("mqttRunMessage", val)
       [] nme = N_timeoutMessage -> set("mqttTimeoutMessage", val)
       [] nme = N_topicRoot -> set("mqttTopicRoot", val)
       [] nme = N_maxRuntime -> setnum("maxRuntime", ToUnsigned(Atoi(val)))
       [] nme = N_resetmqttid /\ IsYes(val) ->
            setnum("mqttClientId", generateMqttClientId(rnd))
       [] nme = N_debug -> setnum("debug", val # V_false)
       [] nme = N_factorydefaults /\ IsYes(val) ->
            CmdResult(saveSettings(initializeSettings(m, rnd, commitOk), rnd, commitOk), TRUE, TRUE)
       [] nme = N_reset /\ IsYes(val) -> CmdResult(m, TRUE, TRUE)
       [] OTHER -> CmdResult(m, FALSE, FALSE)

\* processCommand(cmd) on memory image m.  ub tells what the dereference of a
\* NULL name in the debug printout does: "crash" (exception and restart) or
\* "benign" (the read returns and execution goes on).
processCommand(m, cmd, rnd, commitOk, ub) ==
  LET n == ParseName(cmd)
      v == ParseValue(cmd)
      val == IF v.null THEN <<>> ELSE StripTerminators(v.tok)
      nme == StripTerminators(n.tok)
  IN IF m.settings.debug /\ n.null /\ ub = "crash" THEN CmdResult(m, FALSE, TRUE)
     ELSE IF n.null \/ Len(nme) = 0 THEN CmdResult(m, FALSE, FALSE)
     ELSE ApplyCommand(m, nme, val, rnd, commitOk)

(***************************************************************************)
(* Serial input, the MQTT callback and sendMessage.                        *)
(***************************************************************************)
\* incomingData: every available character is read; a newline sets
\* commandComplete, any other character is appended to commandString
RECURSIVE incomingData(_, _, _)
incomingData(cs, cc, chunk) ==
  IF chunk = <<>> THEN [commandString |-> cs, commandComplete |-> cc]
  ELSE IF Head(chunk) = LF THEN incomingData(cs, TRUE, Tail(chunk))
  ELSE incomingData(Append(cs, Head(chunk)), cc, Tail(chunk))

\* checkForCommand with the characters in chunk available on the serial port
checkForCommand(m, cs, cc, chunk, rnd, commitOk, ub) ==
  IF chunk = <<>>
    THEN [mem |-> m, commandString |-> cs, commandComplete |-> cc, restart |-> FALSE, called |-> FALSE]
    ELSE LET d == incomingData(cs, cc, chunk)
         IN IF ~d.commandComplete
              THEN [mem |-> m, commandString |-> d.commandString, commandComplete |-> FALSE,
                    restart |-> FALSE, called |-> FALSE]
              ELSE IF Len(d.commandString) = 0
                THEN [mem |-> m, commandString |-> <<>>, commandComplete |-> FALSE,
                      restart |-> FALSE, called |-> FALSE]
                ELSE LET r == processCommand(m, d.commandString, rnd, commitOk, ub)
                     IN [mem |-> r.mem, commandString |-> <<>>, commandComplete |-> FALSE,
                         restart |-> r.restart, called |-> TRUE, cmd |-> d.commandString]

\* incomingMqttHandler for a received payload: the memory image afterwards,
\* whether the device restarted inside processCommand, the number of reply
\* publishes attempted, and the topic, the text and the retain flag of the
\* reply.  processCommand works on a String copy of the payload, so the topic
\* suffix is the payload as received.  The failure text is read from an array
\* whose block has ended: it is still "(empty)" (ub "benign") or whatever the
\* stack holds by then.
incomingMqttHandler(m, payload, rnd, commitOk, ub) ==
  IF payload = V_settings
    THEN [mem |-> m, restart |-> FALSE, replies |-> 1, response |-> "settings",
          topic |-> m.settings.mqttTopicRoot \o payload, retained |-> FALSE]
    ELSE LET r == processCommand(m, payload, rnd, commitOk, ub)
         IN IF r.restart
              THEN [mem |-> r.mem, restart |-> TRUE, replies |-> 0, response |-> "none",
                    topic |-> <<>>, retained |-> FALSE]
              ELSE [mem |-> r.mem, restart |-> FALSE, replies |-> 1,
                    response |-> IF r.ret THEN "OK"
                                 ELSE IF ub = "benign" THEN "(empty)" ELSE "indeterminate",
                    topic |-> r.mem.settings.mqttTopicRoot \o payload, retained |-> FALSE]

\* one call of publish(): the topic, the payload and the retain flag handed to
\* mqttClient.publish
Publication(topic, payload, retain) == [topic |-> topic, payload |-> payload, retain |-> retain]

\* the text sprintf("%d") makes of the WiFi.RSSI() reading followed
RssiReading == <<"-","7","0">>

\* a plausible slip: the result of the rssi publish is what gets returned, and
\* the publishes are tried without looking at the session
sendMessage_NoSessionCheck(s, connected, topic, value, rssiOk, msgOk) ==
  [ret |-> rssiOk, publishes |-> 2,
   sent |-> <<Publication(s.mqttTopicRoot \o MQTT_TOPIC_RSSI, RssiReading, TRUE),
              Publication(s.mqttTopicRoot \o topic, value, TRUE)>>]

\* sendMessage: nothing is published without a broker session; otherwise the
\* rssi publish and the message publish are attempted, in this order and both
\* retained, and the result of the message publish is returned
sendMessage(s, connected, topic, value, rssiOk, msgOk) ==
  IF ~connected THEN [ret |-> FALSE, publishes |-> 0, sent |-> <<>>]
  ELSE [ret |-> msgOk, publishes |-> 2,
        sent |-> <<Publication(s.mqttTopicRoot \o MQTT_TOPIC_RSSI, RssiReading, TRUE),
                   Publication(s.mqttTopicRoot \o topic, value, TRUE)>>]

(***************************************************************************)
(* The conditions and writes of loop().                                    *)
(***************************************************************************)
\* a plausible slip: the latch left out of the deadline test
DeadlineDue_NoLatch(t, deadline, sent) == U32Geq(t, deadline)

\* millis()>=timeoutCount && !timeoutMessageSent
DeadlineDue(t, deadline, sent) == U32Geq(t, deadline) /\ ~sent

\* a plausible slip: the output inverted instead of driven low
CutoffOutputs_Toggle(valid, relayLevel, ledLevel) ==
  [relay |-> IF relayLevel = RELAY_OFF THEN RELAY_ON ELSE RELAY_OFF, led |-> LED_ON]

\* a plausible slip: the cutoff placed inside the if (settingsAreValid) block
CutoffOutputs_OnlyIfValid(valid, relayLevel, ledLevel) ==
  IF valid THEN [relay |-> RELAY_OFF, led |-> LED_ON]
  ELSE [relay |-> relayLevel, led |-> ledLevel]

\* the two digitalWrite calls at the head of the deadline block: the levels of
\* RELAY_PORT and LED_PORT afterwards, whatever settingsAreValid is
CutoffOutputs(valid, relayLevel, ledLevel) == [relay |-> RELAY_OFF, led |-> LED_ON]

\* a plausible slip: the guard on settingsAreValid left out (as it was in the
\* earlier firmware)
TimeoutReportWanted_Always(valid) == TRUE

\* if (settingsAreValid) in front of the connect and publish of the timeout
TimeoutReportWanted(valid) == valid

(***************************************************************************)
(* State.                                                                  *)
(***************************************************************************)
VARIABLES
  settings,            \* conf settings
  settingsAreValid,    \* boolean settingsAreValid
  eeprom,              \* the record held in flash (EEPROM.get / put+commit)
  commandString,       \* String commandString: serial text not yet processed
  commandComplete,     \* bool commandComplete
  timeoutCount,        \* unsigned long timeoutCount (milliseconds)
  timeoutMessageSent,  \* boolean timeoutMessageSent
  relay,               \* level last written to RELAY_PORT
  led,                 \* level last written to LED_PORT
  wifiUp,              \* WiFi.status() == WL_CONNECTED
  mqttUp,              \* mqttClient.connected()
  retval,              \* static boolean retval of connectToWiFi
  now,                 \* the value millis() returns
  pc,                  \* position of the single thread of control
  ret,                 \* where connectToWiFi returns to
  i,                   \* loop variable of the association polling loop
  elapsing,            \* the step just made takes time: the clock may move on
  boot,                \* number of the current boot
  tk,                  \* what the current tick has done so far (history)
  hist,                \* what the current boot has done so far (history)
  probe                \* the last processCommand call and its result (history)

memVars == <<settings, settingsAreValid, eeprom>>
serialVars == <<commandString, commandComplete>>
runVars == <<timeoutCount, timeoutMessageSent, relay, led, wifiUp, mqttUp, retval, now, pc, ret, i,
            elapsing, boot, tk, hist>>
vars == <<settings, settingsAreValid, eeprom, commandString, commandComplete,
          timeoutCount, timeoutMessageSent, relay, led, wifiUp, mqttUp, retval,
          now, pc, ret, i, elapsing, boot, tk, hist, probe>>

\* the per-tick and per-boot histories at their start
NoTick == [ticked |-> FALSE, fired |-> FALSE, validAtCheck |-> FALSE, sentAtCheck |-> FALSE,
           expiredAtCheck |-> FALSE, relayOff |-> 0, ledOn |-> 0,
           connCalls |-> 0, assoc |-> 0, handshake |-> 0, publish |-> 0, replies |-> 0,
           sendCalls |-> 0, toutPublish |-> 0, toutOk |-> 0, fast |-> FALSE,
           ended |-> "none", served |-> 0]
NoHist == [reached |-> FALSE, cutoffTicks |-> 0, failed |-> FALSE, relayDrops |-> 0,
           toutOk |-> 0, early |-> FALSE, wrapped |-> FALSE]
NoProbe == [phase |-> "none"]

(***************************************************************************)
(* Records and inputs used to exercise the command processor.              *)
(***************************************************************************)
RandomHex == {<<"a","1">>, <<"b","2">>, <<"a","1","b","2">>}

\* a record as initializeSettings leaves it on a new board
FreshSettings == initializeSettings(Mem(conf, FALSE, conf, 0), <<"a","1">>, TRUE).settings

\* a completely configured record
ConfiguredSettings ==
  [FreshSettings EXCEPT !.ssid = <<"n","e","t">>, !.wifiPassword = <<"p","w">>,
                        !.brokerAddress = <<"h","o","s","t">>,
                        !.validConfig = VALID_SETTINGS_FLAG]

CmdImages ==
  {FreshSettings, ConfiguredSettings, [ConfiguredSettings EXCEPT !.debug = TRUE],
   [ConfiguredSettings EXCEPT !.mqttUsername = <<"u">>, !.maxRuntime = U32(5)]}

FieldNames == {N_ssid, N_wifipass, N_broker, N_brokerPort, N_userName, N_userPass,
               N_topicRoot, N_runMessage, N_timeoutMessage, N_lwtMessage,
               N_maxRuntime, N_debug}
ActionNames == {N_resetmqttid, N_factorydefaults, N_reset}
RecognizedNames == FieldNames \cup ActionNames

\* names that strcmp matches with none of the command names
OtherNames == {<<"S","S","I","D">>, <<"s","s","i","d","s">>, <<"s","s","i">>, <<"x">>,
               <<"D","e","b","u","g">>, <<"p","o","r","t">>, V_settings,
               <<"s","s","i","d"," ">>}

CmdValues == {<<>>, <<"a">>, <<"a","b">>, <<"a",CR>>, <<"a",CR,LF>>, <<CR,LF>>,
              <<"a","=","b">>, <<"7">>, <<"0">>, <<"-","1">>, <<"7","0","0","0","0">>,
              <<"6","5","5","3","5">>, <<"4","2","x">>, V_yes, V_false, <<"n","o">>}

CmdLines ==
  {n \o <<EQ>> \o v : n \in RecognizedNames \cup OtherNames, v \in CmdValues}
  \cup RecognizedNames \cup OtherNames                       \* no separator at all
  \cup {<<EQ>> \o n : n \in FieldNames \cup {<<"x">>}}       \* empty name
  \cup {<<>>, <<EQ>>, <<EQ, EQ>>, <<CR>>, <<CR, EQ, "a">>}

(***************************************************************************)
(* A specification that applies processCommand once to every input: the    *)
(* inputs are drawn by the initial condition, the action makes the call.   *)
(***************************************************************************)
InitCmd ==
  /\ settings \in CmdImages
  /\ settingsAreValid = (settings.validConfig = VALID_SETTINGS_FLAG)
  /\ eeprom = settings
  /\ probe \in [phase : {"input"}, cmd : CmdLines, rnd : RandomHex,
                commitOk : BOOLEAN, ub : {"crash", "benign"}]
  /\ commandString = <<>> /\ commandComplete = FALSE
  /\ timeoutCount = U32Mul(settings.maxRuntime, 1000)    \* as setup() computed it
  /\ timeoutMessageSent = FALSE
  /\ relay = RELAY_ON /\ led = LED_OFF
  /\ wifiUp = FALSE /\ mqttUp = FALSE /\ retval = TRUE
  /\ now = U32Zero /\ pc = "command" /\ ret = "none" /\ i = 0 /\ elapsing = FALSE /\ boot = 1
  /\ tk = NoTick /\ hist = NoHist

CallProcessCommand ==
  /\ probe.phase = "input"
  /\ \E r \in {processCommand(Mem(settings, settingsAreValid, eeprom, 0),
                              probe.cmd, probe.rnd, probe.commitOk, probe.ub)} :
        /\ settings' = r.mem.settings
        /\ settingsAreValid' = r.mem.settingsAreValid
        /\ eeprom' = r.mem.eeprom
        /\ probe' = [phase |-> "done", cmd |-> probe.cmd, rnd |-> probe.rnd,
                     commitOk |-> probe.commitOk, ub |-> probe.ub,
                     before |-> Mem(settings, settingsAreValid, eeprom, 0),
                     ret |-> r.ret, restart |-> r.restart, puts |-> r.mem.puts]
  /\ UNCHANGED <<serialVars, runVars>>

NextCmd == CallProcessCommand

SpecCmd == InitCmd /\ [][NextCmd]_vars

(***************************************************************************)
(* How the command protocol reads a line, independently of the parser:     *)
(* the name is the text before the first '=', the value the text after it, *)
(* and trailing terminators do not count.                                  *)
(***************************************************************************)
HasSeparator(line) == \E k \in 1..Len(line) : line[k] = EQ
FirstSeparator(line) == CHOOSE k \in 1..Len(line) : line[k] = EQ /\ \A j \in 1..(k - 1) : line[j] # EQ
RECURSIVE WithoutTerminators(_)
WithoutTerminators(s) ==
  IF Len(s) > 0 /\ IsTerminator(s[Len(s)]) THEN WithoutTerminators(SubSeq(s, 1, Len(s) - 1)) ELSE s
LineName(line) ==
  WithoutTerminators(IF HasSeparator(line) THEN SubSeq(line, 1, FirstSeparator(line) - 1) ELSE line)
LineValue(line) ==
  WithoutTerminators(IF HasSeparator(line) THEN SubSeq(line, FirstSeparator(line) + 1, Len(line)) ELSE <<>>)
IsNumeral(v) == Len(v) \in 1..9 /\ \A k \in 1..Len(v) : IsDigit(v[k])
RECURSIVE NumeralValue(_)
NumeralValue(v) == IF v = <<>> THEN 0 ELSE NumeralValue(SubSeq(v, 1, Len(v) - 1)) * 10 + DigitVal(v[Len(v)])

\* the field of record s named by command name n holds value v
FieldHolds(s, n, v) ==
  CASE n = N_ssid -> s.ssid = v
    [] n = N_wifipass -> s.wifiPassword = v
    [] n = N_broker -> s.brokerAddress = v
    [] n = N_brokerPort -> IsNumeral(v) => s.brokerPort = NumeralValue(v)
    [] n = N_userName -> s.mqttUsername = v
    [] n = N_userPass -> s.mqttUserPassword = v
    [] n = N_topicRoot -> s.mqttTopicRoot = v
    [] n = N_runMessage -> s.mqttRunMessage = v
    [] n = N_timeoutMessage -> s.mqttTimeoutMessage = v
    [] n = N_lwtMessage -> s.mqttLWTMessage = v
    [] n = N_maxRuntime -> IsNumeral(v) => s.maxRuntime = U32(NumeralValue(v))
    [] n = N_debug -> s.debug = (v # V_false)

CmdDone == probe.phase = "done"

\* C8: for every line name=value whose name is a recognized configuration
\* field, processCommand returns true and the named field then holds the
\* value (the text after the first '=') without its trailing terminators.
C8_FieldCommandSetsValue ==
  (CmdDone /\ HasSeparator(probe.cmd) /\ LineName(probe.cmd) \in FieldNames)
    => (probe.ret = TRUE /\ FieldHolds(settings, LineName(probe.cmd), LineValue(probe.cmd)))

\* C9: for every malformed line (no '=' separator, or an empty name)
\* processCommand returns false and no field of the record changes.
Malformed(line) == ~HasSeparator(line) \/ LineName(line) = <<>>
C9_MalformedLineRejected ==
  (CmdDone /\ ~probe.restart /\ Malformed(probe.cmd))
    => (probe.ret = FALSE /\ settings = probe.before.settings)

\* C10: for every line with a name that is not a recognized command name
\* (case-sensitive), and for resetmqttid, factorydefaults or reset with a value
\* other than yes, processCommand returns false, no field of the record
\* changes and nothing is written to persistent storage.
UnrecognizedCommand(line) ==
  /\ LineName(line) # <<>>
  /\ \/ LineName(line) \notin RecognizedNames
     \/ LineName(line) \in ActionNames /\ LineValue(line) # V_yes
TextFieldNames == FieldNames \ {N_brokerPort, N_maxRuntime, N_debug}

\* C11: a line is split at its first '=' only: for a line name=v whose value
\* v itself contains '=', the named text field is set to the whole text after
\* the first '=' (terminators stripped), nothing after a second '=' is dropped.
C11_SplitAtFirstSeparatorOnly ==
  (CmdDone /\ ~probe.restart /\ LineName(probe.cmd) \in TextFieldNames
     /\ HasSeparator(probe.cmd) /\ HasSeparator(LineValue(probe.cmd)))
    => FieldHolds(settings, LineName(probe.cmd), LineValue(probe.cmd))

\* a decimal number, with or without a minus sign, and the integer it denotes
IsNumber(v) == IsNumeral(v) \/ (Len(v) >= 2 /\ v[1] = "-" /\ IsNumeral(Tail(v)))
NumberValue(v) == IF IsNumeral(v) THEN NumeralValue(v) ELSE 0 - NumeralValue(Tail(v))

\* every field the validity test requires, other than field f, passes it
ValidButFor(s, f, good) == SettingsComplete([s EXCEPT ![f] = good])

\* C13: with every other required field valid, a brokerPort command carrying
\* a port from 1 to 65535 inclusive leaves the configuration marked valid,
\* and a port outside that range leaves it marked invalid.
C13_PortRangeInclusive ==
  (CmdDone /\ ~probe.restart /\ HasSeparator(probe.cmd)
     /\ LineName(probe.cmd) = N_brokerPort /\ IsNumber(LineValue(probe.cmd))
     /\ ValidButFor(probe.before.settings, "brokerPort", DEFAULT_MQTT_BROKER_PORT))
    => (settingsAreValid <=> NumberValue(LineValue(probe.cmd)) \in 1..65535)

\* C14: a maxRuntime command whose value is not a positive integer (zero, a
\* negative number, or non-numeric text) always leaves the configuration
\* marked invalid.
C14_NonPositiveRuntimeInvalidates ==
  (CmdDone /\ ~probe.restart /\ HasSeparator(probe.cmd)
     /\ LineName(probe.cmd) = N_maxRuntime
     /\ ~(IsNumeral(LineValue(probe.cmd)) /\ NumeralValue(LineValue(probe.cmd)) > 0))
    => ~settingsAreValid

\* C18: once the client identifier is non-empty it is changed only by the
\* command resetmqttid=yes: every other command, factorydefaults=yes
\* included, and every save leaves it unchanged in memory and in flash.
C18_ClientIdChangedOnlyByReset ==
  (CmdDone /\ probe.before.settings.mqttClientId # <<>>
     /\ probe.before.eeprom.mqttClientId = probe.before.settings.mqttClientId
     /\ ~(LineName(probe.cmd) = N_resetmqttid /\ LineValue(probe.cmd) = V_yes))
    => /\ settings.mqttClientId = probe.before.settings.mqttClientId
       /\ eeprom.mqttClientId = probe.before.settings.mqttClientId

\* C24: after a successful maxRuntime=N command the deadline that loop()
\* compares against the clock is N x 1000 ms, without a reboot.
C24_DeadlineFollowsMaxRuntime ==
  (CmdDone /\ ~probe.restart /\ probe.ret /\ HasSeparator(probe.cmd)
     /\ LineName(probe.cmd) = N_maxRuntime /\ IsNumeral(LineValue(probe.cmd))
     /\ NumeralValue(LineValue(probe.cmd)) > 0)
    => timeoutCount = U32Mul(U32(NumeralValue(LineValue(probe.cmd))), 1000)

FactoryDefaultsDone ==
  /\ CmdDone /\ LineName(probe.cmd) = N_factorydefaults /\ LineValue(probe.cmd) = V_yes

\* every user-settable field of record s equals its compiled-in default
AtDefaults(s) ==
  /\ s.ssid = <<>> /\ s.wifiPassword = <<>> /\ s.brokerAddress = <<>>
  /\ s.mqttUsername = <<>> /\ s.mqttUserPassword = <<>>
  /\ s.brokerPort = 1883 /\ s.maxRuntime = U32(300)
  /\ s.mqttTopicRoot = DEFAULT_MQTT_TOPIC_ROOT
  /\ s.mqttRunMessage = DEFAULT_MQTT_RUN_MESSAGE
  /\ s.mqttTimeoutMessage = DEFAULT_MQTT_TIMEOUT_MESSAGE
  /\ s.mqttLWTMessage = DEFAULT_MQTT_LWT_MESSAGE
  /\ s.debug = FALSE

TextCapacity ==
  [ssid |-> SSID_SIZE, wifiPassword |-> PASSWORD_SIZE, brokerAddress |-> ADDRESS_SIZE,
   mqttUsername |-> USERNAME_SIZE, mqttUserPassword |-> PASSWORD_SIZE,
   mqttTopicRoot |-> MQTT_MAX_TOPIC_SIZE, mqttRunMessage |-> MQTT_MAX_MESSAGE_SIZE,
   mqttTimeoutMessage |-> MQTT_MAX_MESSAGE_SIZE, mqttLWTMessage |-> MQTT_MAX_MESSAGE_SIZE,
   mqttClientId |-> MQTT_CLIENTID_SIZE]

TextFields == DOMAIN TextCapacity

\* a text of n characters
Fill(n) == [k \in 1..n |-> "x"]

\* the texts tried in a char array of the given size: empty, one character,
\* and the longest text the array holds together with its terminator
SaveTexts(size) == {<<>>, <<"x">>, Fill(size - 1)}

\* a record with text v in char array f
WithText(s, f, v) == [s EXCEPT ![f] = v]

SavePorts == {-1, 0, 1, DEFAULT_MQTT_BROKER_PORT, 65534, 65535, 65536}

SaveRuntimes == {U32Zero, U32(1), U32(4294967), U32(4294968), U32Max}

\* records that differ from a configured record in one text field, in the
\* port, in the run time and in the marker left by an earlier save
SaveRecords ==
  UNION {{[WithText(ConfiguredSettings, f, v) EXCEPT !.brokerPort = p, !.maxRuntime = r,
                                                     !.validConfig = mark] :
            v \in SaveTexts(TextCapacity[f]), p \in SavePorts, r \in SaveRuntimes,
            mark \in {0, VALID_SETTINGS_FLAG}} : f \in TextFields}

InitSave ==
  /\ settings \in SaveRecords
  /\ settingsAreValid = (settings.validConfig = VALID_SETTINGS_FLAG)
  /\ eeprom = ConfiguredSettings
  /\ probe \in [phase : {"save_input"}, rnd : RandomHex, commitOk : BOOLEAN]
  /\ commandString = <<>> /\ commandComplete = FALSE
  /\ timeoutCount = U32Zero /\ timeoutMessageSent = FALSE
  /\ relay = RELAY_ON /\ led = LED_OFF
  /\ wifiUp = FALSE /\ mqttUp = FALSE /\ retval = TRUE
  /\ now = U32Zero /\ pc = "save" /\ ret = "none" /\ i = 0 /\ elapsing = FALSE /\ boot = 1
  /\ tk = NoTick /\ hist = NoHist

CallSaveSettings ==
  /\ probe.phase = "save_input"
  /\ \E r \in {saveSettings(Mem(settings, settingsAreValid, eeprom, 0),
                            probe.rnd, probe.commitOk)} :
        /\ settings' = r.settings
        /\ settingsAreValid' = r.settingsAreValid
        /\ eeprom' = r.eeprom
        /\ probe' = [phase |-> "saved", rnd |-> probe.rnd, commitOk |-> probe.commitOk,
                     before |-> settings, saved |-> r.settings]
  /\ UNCHANGED <<serialVars, runVars>>

\* the next boot: the record starts from its member initial values, the
\* derived flag from false, and setup() calls loadSettings
CallLoadSettings ==
  /\ probe.phase = "saved"
  /\ \E r \in {loadSettings(Mem(conf, FALSE, eeprom, 0))} :
        /\ settings' = r.settings
        /\ settingsAreValid' = r.settingsAreValid
        /\ eeprom' = r.eeprom
  /\ probe' = [probe EXCEPT !.phase = "loaded"]
  /\ UNCHANGED <<serialVars, runVars>>

NextSave == CallSaveSettings \/ CallLoadSettings

SpecSave == InitSave /\ [][NextSave]_vars

(***************************************************************************)
(* A specification that delivers one payload on the command topic to       *)
(* incomingMqttHandler.                                                    *)
(***************************************************************************)
InitMqtt ==
  /\ settings \in CmdImages
  /\ settingsAreValid = (settings.validConfig = VALID_SETTINGS_FLAG)
  /\ eeprom = settings
  /\ probe \in [phase : {"mqtt_input"}, cmd : CmdLines, rnd : RandomHex,
                commitOk : BOOLEAN, ub : {"crash", "benign"}]
  /\ commandString = <<>> /\ commandComplete = FALSE
  /\ timeoutCount = U32Zero /\ timeoutMessageSent = FALSE
  /\ relay = RELAY_ON /\ led = LED_OFF
  /\ wifiUp = TRUE /\ mqttUp = TRUE /\ retval = TRUE
  /\ now = U32Zero /\ pc = "callback" /\ ret = "none" /\ i = 0 /\ elapsing = FALSE /\ boot = 1
  /\ tk = NoTick /\ hist = NoHist

CallIncomingMqttHandler ==
  /\ probe.phase = "mqtt_input"
  /\ \E h \in {incomingMqttHandler(Mem(settings, settingsAreValid, eeprom, 0),
                                    probe.cmd, probe.rnd, probe.commitOk, probe.ub)} :
        /\ settings' = h.mem.settings
        /\ settingsAreValid' = h.mem.settingsAreValid
        /\ eeprom' = h.mem.eeprom
        /\ probe' = [phase |-> "mqtt_done", cmd |-> probe.cmd, rnd |-> probe.rnd,
                     commitOk |-> probe.commitOk, ub |-> probe.ub,
                     before |-> Mem(settings, settingsAreValid, eeprom, 0),
                     restart |-> h.restart, replies |-> h.replies, response |-> h.response,
                     topic |-> h.topic, retained |-> h.retained]
  /\ UNCHANGED <<serialVars, runVars>>

NextMqtt == CallIncomingMqttHandler

SpecMqtt == InitMqtt /\ [][NextMqtt]_vars

(***************************************************************************)
(* A specification that feeds a stream of serial characters to             *)
(* checkForCommand, poll by poll: the initial condition draws the stream   *)
(* and the way its characters are split across the polls.                  *)
(***************************************************************************)
SerialLines == {N_ssid \o <<EQ, "a">>, N_debug \o <<EQ, "0">>}

\* one or two complete lines, followed or not by the start of another line
SerialStreams ==
  {l1 \o <<LF>> \o rest \o part :
     l1 \in SerialLines, rest \in {<<>>} \cup {l2 \o <<LF>> : l2 \in SerialLines},
     part \in {<<>>, <<"s", "s">>}}

\* the ways to hand a text to at most three polls, each with something to read
Splits(t) ==
  {<<t>>}
  \cup {<<SubSeq(t, 1, a), SubSeq(t, a + 1, Len(t))>> : a \in 1..(Len(t) - 1)}
  \cup UNION {{<<SubSeq(t, 1, a), SubSeq(t, a + 1, b), SubSeq(t, b + 1, Len(t))>> :
                 b \in (a + 1)..(Len(t) - 1)} : a \in 1..(Len(t) - 2)}

InitSerial ==
  /\ settings = ConfiguredSettings /\ settingsAreValid = TRUE /\ eeprom = settings
  /\ \E t \in SerialStreams : \E q \in Splits(t) :
        probe = [phase |-> "serial", stream |-> t, split |-> q, polls |-> q, done |-> <<>>]
  /\ commandString = <<>> /\ commandComplete = FALSE
  /\ timeoutCount = U32Zero /\ timeoutMessageSent = FALSE
  /\ relay = RELAY_ON /\ led = LED_OFF
  /\ wifiUp = FALSE /\ mqttUp = FALSE /\ retval = TRUE
  /\ now = U32Zero /\ pc = "serial" /\ ret = "none" /\ i = 0 /\ elapsing = FALSE /\ boot = 1
  /\ tk = NoTick /\ hist = NoHist

\* one call of checkForCommand with the characters of the next poll available
PollSerial ==
  /\ probe.phase = "serial" /\ probe.polls # <<>>
  /\ \E rnd \in RandomHex :
     \E c \in {checkForCommand(Mem(settings, settingsAreValid, eeprom, 0), commandString,
                               commandComplete, Head(probe.polls), rnd, TRUE, "benign")} :
        /\ settings' = c.mem.settings
        /\ settingsAreValid' = c.mem.settingsAreValid
        /\ eeprom' = c.mem.eeprom
        /\ commandString' = c.commandString
        /\ commandComplete' = c.commandComplete
        /\ probe' = [probe EXCEPT !.polls = Tail(@),
                                  !.done = IF c.called THEN Append(@, c.cmd) ELSE @]
  /\ UNCHANGED runVars

NextSerial == PollSerial

SpecSerial == InitSerial /\ [][NextSerial]_vars

\* the newline-terminated lines of a text, in order, and what follows the last
RECURSIVE TerminatedLines(_, _)
TerminatedLines(t, cur) ==
  IF t = <<>> THEN <<>>
  ELSE IF Head(t) = LF THEN <<cur>> \o TerminatedLines(Tail(t), <<>>)
  ELSE TerminatedLines(Tail(t), Append(cur, Head(t)))
RECURSIVE Unterminated(_, _)
Unterminated(t, cur) ==
  IF t = <<>> THEN cur
  ELSE IF Head(t) = LF THEN Unterminated(Tail(t), <<>>)
  ELSE Unterminated(Tail(t), Append(cur, Head(t)))

\* C25: every newline-terminated line received on the serial channel is
\* passed to processCommand exactly once, as its own command and in arrival
\* order, however its bytes are split across polls and also when two or more
\* complete lines are available in the same poll; a line not yet terminated
\* is kept in the accumulator and not processed.
C25_EachLineProcessedOnce ==
  (probe.phase = "serial" /\ probe.polls = <<>>)
    => /\ probe.done = TerminatedLines(probe.stream, <<>>)
       /\ commandString = Unterminated(probe.stream, <<>>)

MqttDone == probe.phase = "mqtt_done"

\* what processCommand returns for the payload on the record before the call
PayloadAccepted ==
  processCommand(probe.before, probe.cmd, probe.rnd, probe.commitOk, probe.ub).ret

\* C22: for every command received on the messaging channel exactly one
\* reply publish is attempted, not retained, to topicRoot followed by the
\* received command text: OK when processCommand succeeded, a failure text
\* when it failed, and the settings listing for the command settings.  This
\* holds for every recognized command, reset=yes and factorydefaults=yes
\* included.
C22_OneReplyPerCommand ==
  MqttDone
    => /\ probe.replies = 1 /\ ~probe.retained
       /\ probe.topic = settings.mqttTopicRoot \o probe.cmd
       /\ probe.response = (IF probe.cmd = V_settings THEN "settings"
                            ELSE IF PayloadAccepted THEN "OK" ELSE "(empty)")

\* the text fields saveSettings requires to be set
RequiredTextFields == TextFields \ {"mqttUsername", "mqttUserPassword", "mqttClientId"}

\* C12 as stated: saveSettings marks the record valid if and only if every
\* bounded-length text field of the record is non-empty and within its
\* capacity, brokerPort is strictly between 0 and 65535, and maxRuntime > 0.
C12_ValidIffEveryTextFieldSet ==
  probe.phase = "saved" =>
    ((settings.validConfig = VALID_SETTINGS_FLAG /\ settingsAreValid)
       <=> (/\ \A f \in TextFields :
                  Len(probe.before[f]) >= 1 /\ Len(probe.before[f]) < TextCapacity[f]
            /\ probe.before.brokerPort \in 1..65534
            /\ probe.before.maxRuntime # U32Zero))

\* C12: saveSettings marks the record valid (marker set to the constant and
\* the derived flag true) if and only if the network name, the network
\* password, the broker address, the topic root and the run, timeout and
\* last-will messages are non-empty, brokerPort is strictly between 0 and
\* 65535 and maxRuntime is greater than 0; otherwise it marks it invalid
\* (marker 0, flag false).  The broker user name, the broker password and the
\* client identifier take no part in the test.
C12_ValidIffRequiredFieldsSet ==
  probe.phase = "saved" =>
    /\ settingsAreValid
         <=> (/\ \A f \in RequiredTextFields : Len(probe.before[f]) >= 1
              /\ probe.before.brokerPort \in 1..65534
              /\ probe.before.maxRuntime # U32Zero)
    /\ settings.validConfig = (IF settingsAreValid THEN VALID_SETTINGS_FLAG ELSE 0)

\* C12 witness: a record not yet marked, with no broker user name and password,
\* the longest network name and port 65534, has been saved and marked valid
C12_Witness ==
  /\ probe.phase = "saved"
  /\ settingsAreValid /\ settings.validConfig = VALID_SETTINGS_FLAG
  /\ probe.before.mqttUsername = <<>> /\ probe.before.mqttUserPassword = <<>>
  /\ probe.before.brokerPort = 65534 /\ Len(probe.before.ssid) = SSID_SIZE - 1
  /\ probe.before.validConfig = 0

Times == <<U32Zero, U32(5000), U32(300000), U32Max>>
TimeIndex(t) == CHOOSE k \in 1..Len(Times) : Times[k] = t
NextTime(t) == Times[(TimeIndex(t) % Len(Times)) + 1]

\* the longest time one connectToWiFi call blocks: the polling loop and the
\* wait after a failed broker handshake
PollDelayMillis == 500
ReconnectDelayMillis == 1000
MaxBlockMillis == WIFI_CONNECTION_ATTEMPTS * PollDelayMillis + ReconnectDelayMillis

\* what the flash holds when power is applied
\* a flash never written by this program: the marker is neither 0 nor the flag
ForeignSettings == [conf EXCEPT !.validConfig = 65535, !.brokerPort = -1]
\* what saveSettings left after the commands ssid=net and brokerPort=70000
PartialSettings == [FreshSettings EXCEPT !.ssid = <<"n","e","t">>, !.brokerPort = 70000]
PowerOnImages ==
  {[ConfiguredSettings EXCEPT !.maxRuntime = U32(5)], FreshSettings, ForeignSettings,
   PartialSettings}

\* what arrives on the serial port between two polls (nothing, or a whole line)
SerialChunks ==
  {<<>>,
   N_ssid \o <<EQ, LF>>,
   N_ssid \o <<EQ, "n", "e", "t", LF>>,
   N_reset \o <<EQ>> \o V_yes \o <<LF>>}

\* what the broker delivers on the command topic
NoMessage == <<"<none>">>
MqttPayloads == {V_settings, N_ssid \o <<EQ>>}

\* what random() yields, and what the read through a NULL name does, in the
\* behaviours followed
BootRandomHex == {<<"a","1">>}
UbOutcomes == {"crash", "benign"}

Inc(n) == IF n < MaxCount THEN n + 1 ELSE MaxCount

(***************************************************************************)
(* The firmware as a state machine.  pc is the position of the thread:     *)
(*   "boot"        power applied or restart done, setup() not yet run      *)
(*   "cw"          at the head of connectToWiFi                            *)
(*   "poll"        in the association polling loop                         *)
(*   "cwres"       after the polling loop                                  *)
(*   "cwrec"       at the second WiFi.status() test of connectToWiFi       *)
(*   "setup_send"  in setup(), after the connection attempt                *)
(*   "loop"        between two passes of loop()                            *)
(*   "loop_send"   in loop(), after connectToWiFi returned                 *)
(*   "loop_end"    in loop(), after the deadline block                     *)
(***************************************************************************)
Init ==
  /\ eeprom \in PowerOnImages
  /\ settings = conf /\ settingsAreValid = FALSE
  /\ commandString = <<>> /\ commandComplete = FALSE
  /\ timeoutCount = U32Zero /\ timeoutMessageSent = FALSE
  /\ relay = "INPUT" /\ led = "INPUT"
  /\ wifiUp = FALSE /\ mqttUp = FALSE /\ retval = TRUE
  /\ now = U32Zero /\ pc = "boot" /\ ret = "none" /\ i = 0 /\ elapsing = FALSE
  /\ boot = 1 /\ tk = NoTick /\ hist = NoHist /\ probe = NoProbe

\* ESP.restart() (or a crash): the RAM is initialised again, the pins float,
\* the clock restarts, the flash keeps what was committed
Restart(ee) ==
  /\ boot < MaxBoots
  /\ eeprom' = ee
  /\ settings' = conf /\ settingsAreValid' = FALSE
  /\ commandString' = <<>> /\ commandComplete' = FALSE
  /\ timeoutCount' = U32Zero /\ timeoutMessageSent' = FALSE
  /\ relay' = "INPUT" /\ led' = "INPUT"
  /\ wifiUp' = FALSE /\ mqttUp' = FALSE /\ retval' = TRUE
  /\ now' = U32Zero /\ pc' = "boot" /\ ret' = "none" /\ i' = 0 /\ elapsing' = FALSE
  /\ boot' = boot + 1 /\ tk' = NoTick /\ hist' = NoHist /\ probe' = probe

SetMem(m) ==
  /\ settings' = m.settings
  /\ settingsAreValid' = m.settingsAreValid
  /\ eeprom' = m.eeprom

CurMem == Mem(settings, settingsAreValid, eeprom, 0)

\* a variant of the sanity check that rejects every record not marked valid
FailsSanityCheck_AnyUnmarked(s) ==
  s.validConfig # VALID_SETTINGS_FLAG \/ s.brokerPort < 0 \/ s.brokerPort > 65535

\* the sanity check of setup() on the record just loaded
FailsSanityCheck(s) ==
  \/ (s.validConfig # 0 /\ s.validConfig # VALID_SETTINGS_FLAG)
  \/ s.brokerPort < 0
  \/ s.brokerPort > 65535

\* setup() up to the call of connectToWiFi
Setup ==
  /\ pc = "boot"
  /\ \E rnd \in BootRandomHex :
     \E m0 \in {loadSettings(CurMem)} :
     \E m1 \in {IF FailsSanityCheck(m0.settings) THEN initializeSettings(m0, rnd, TRUE) ELSE m0} :
     \E tc \in {U32Mul(m1.settings.maxRuntime, 1000)} :
          /\ SetMem(m1)
          /\ timeoutCount' = tc
          /\ hist' = [NoHist EXCEPT !.reached = U32Geq(now, tc)]
          /\ pc' = IF m1.settings.validConfig = VALID_SETTINGS_FLAG THEN "cw" ELSE "setup_send"
  /\ relay' = RELAY_ON /\ led' = LED_OFF
  /\ ret' = "setup_send" /\ tk' = NoTick
  /\ UNCHANGED <<serialVars, timeoutMessageSent, wifiUp, mqttUp, retval, now, i, elapsing, boot, probe>>

\* connectToWiFi: the first test, and WiFi.begin when it is taken
ConnectEnter ==
  /\ pc = "cw"
  /\ IF settingsAreValid /\ ~wifiUp
       THEN /\ pc' = "poll" /\ i' = 0
            /\ tk' = [tk EXCEPT !.connCalls = @ + 1, !.assoc = @ + 1, !.fast = FALSE]
       ELSE /\ pc' = "cwrec" /\ i' = i
            /\ tk' = [tk EXCEPT !.connCalls = @ + 1, !.fast = wifiUp /\ mqttUp]
  /\ UNCHANGED <<memVars, serialVars, timeoutCount, timeoutMessageSent, relay, led, wifiUp,
                 mqttUp, retval, now, ret, elapsing, boot, hist, probe>>

\* a variant of Poll whose loop test lets one more pass through
Poll_OneMore ==
  /\ pc = "poll"
  /\ IF i <= WIFI_CONNECTION_ATTEMPTS /\ ~wifiUp
       THEN \E chunk \in SerialChunks, rnd \in BootRandomHex, ub \in UbOutcomes :
            \E c \in {checkForCommand(CurMem, commandString, commandComplete, chunk, rnd, TRUE, ub)} :
                 IF c.restart THEN Restart(c.mem.eeprom)
                 ELSE /\ SetMem(c.mem)
                      /\ commandString' = c.commandString
                      /\ commandComplete' = c.commandComplete
                      /\ i' = i + 1 /\ elapsing' = TRUE /\ pc' = "poll"
                      /\ tk' = [tk EXCEPT !.served = @ + 1]
                      /\ UNCHANGED <<timeoutCount, timeoutMessageSent, relay, led, wifiUp, mqttUp,
                                     retval, now, ret, boot, hist, probe>>
       ELSE /\ pc' = "cwres"
            /\ UNCHANGED <<memVars, serialVars, timeoutCount, timeoutMessageSent, relay, led, wifiUp,
                           mqttUp, retval, now, ret, i, elapsing, boot, tk, hist, probe>>

\* one pass of the polling loop: leave when associated or after
\* WIFI_CONNECTION_ATTEMPTS passes, else service the serial port and wait
Poll ==
  /\ pc = "poll"
  /\ IF i < WIFI_CONNECTION_ATTEMPTS /\ ~wifiUp
       THEN \E chunk \in SerialChunks, rnd \in BootRandomHex, ub \in UbOutcomes :
            \E c \in {checkForCommand(CurMem, commandString, commandComplete, chunk, rnd, TRUE, ub)} :
                 IF c.restart THEN Restart(c.mem.eeprom)
                 ELSE /\ SetMem(c.mem)
                      /\ commandString' = c.commandString
                      /\ commandComplete' = c.commandComplete
                      /\ i' = i + 1 /\ elapsing' = TRUE /\ pc' = "poll"
                      /\ tk' = [tk EXCEPT !.served = @ + 1]
                      /\ UNCHANGED <<timeoutCount, timeoutMessageSent, relay, led, wifiUp, mqttUp,
                                     retval, now, ret, boot, hist, probe>>
       ELSE /\ pc' = "cwres"
            /\ UNCHANGED <<memVars, serialVars, timeoutCount, timeoutMessageSent, relay, led, wifiUp,
                           mqttUp, retval, now, ret, i, elapsing, boot, tk, hist, probe>>

\* a variant of PollResult that reports success whatever the link status is
PollResult_AlwaysTrue ==
  /\ pc = "cwres"
  /\ retval' = TRUE
  /\ pc' = "cwrec" /\ i' = 0
  /\ tk' = [tk EXCEPT !.ended = IF wifiUp THEN "up" ELSE "down", !.served = 0]
  /\ UNCHANGED <<memVars, serialVars, timeoutCount, timeoutMessageSent, relay, led, wifiUp,
                 mqttUp, now, ret, elapsing, boot, hist, probe>>

\* after the polling loop: retval records whether the link is associated
PollResult ==
  /\ pc = "cwres"
  /\ retval' = wifiUp
  /\ pc' = "cwrec" /\ i' = 0
  /\ tk' = [tk EXCEPT !.ended = IF wifiUp THEN "up" ELSE "down", !.served = 0]
  /\ UNCHANGED <<memVars, serialVars, timeoutCount, timeoutMessageSent, relay, led, wifiUp,
                 mqttUp, now, ret, elapsing, boot, hist, probe>>

NoCommand(m) == [mem |-> m, commandString |-> commandString, commandComplete |-> commandComplete,
                 restart |-> FALSE, called |-> FALSE]
NoDelivery(m) == [mem |-> m, restart |-> FALSE, replies |-> 0, response |-> "none"]

\* the rest of connectToWiFi: reconnect() when the link is associated (the
\* broker handshake when there is no session, with the subscribe on success and
\* checkForCommand and a wait on failure, then mqttClient.loop()), and return
Reconnect ==
  /\ pc = "cwrec"
  /\ \E ok \in BOOLEAN, chunk \in SerialChunks, payload \in MqttPayloads \cup {NoMessage},
        rnd \in BootRandomHex, ub \in UbOutcomes :
     \E attempt \in {wifiUp /\ ~mqttUp} :
     \E up1 \in {IF attempt THEN ok ELSE mqttUp} :
     \E c \in {IF attempt /\ ~ok
                 THEN checkForCommand(CurMem, commandString, commandComplete, chunk, rnd, TRUE, ub)
                 ELSE NoCommand(CurMem)} :
     \E deliver \in {wifiUp /\ up1 /\ ~c.restart /\ payload # NoMessage} :
     \E h \in {IF deliver THEN incomingMqttHandler(c.mem, payload, rnd, TRUE, ub)
                 ELSE NoDelivery(c.mem)} :
          /\ attempt \/ ok
          /\ (attempt /\ ~ok) \/ chunk = <<>>
          /\ (wifiUp /\ up1) \/ payload = NoMessage
          /\ IF c.restart \/ h.restart THEN Restart(h.mem.eeprom)
             ELSE /\ SetMem(h.mem)
                  /\ commandString' = c.commandString
                  /\ commandComplete' = c.commandComplete
                  /\ mqttUp' = up1
                  /\ elapsing' = (elapsing \/ (attempt /\ ~ok))
                  /\ tk' = [tk EXCEPT !.handshake = @ + (IF attempt THEN 1 ELSE 0),
                                      !.publish = @ + h.replies,
                                      !.replies = @ + h.replies]
                  /\ pc' = ret /\ ret' = "none"
                  /\ UNCHANGED <<timeoutCount, timeoutMessageSent, relay, led, wifiUp, retval, now,
                                 i, boot, hist, probe>>

\* the end of setup(): the run message when the link is associated
SetupSend ==
  /\ pc = "setup_send"
  /\ \E rssiOk \in BOOLEAN, msgOk \in BOOLEAN :
     \E r \in {IF wifiUp THEN sendMessage(settings, mqttUp, MQTT_TOPIC_STATUS,
                                            settings.mqttRunMessage, rssiOk, msgOk)
                 ELSE [ret |-> FALSE, publishes |-> 0]} :
          /\ mqttUp \/ (~rssiOk /\ ~msgOk)
          /\ r.publishes \in 0..2
  /\ tk' = NoTick
  /\ pc' = "loop"
  /\ UNCHANGED <<memVars, serialVars, timeoutCount, timeoutMessageSent, relay, led, wifiUp, mqttUp,
                 retval, now, ret, i, elapsing, boot, hist, probe>>

\* one pass of loop() up to the call of connectToWiFi: mqttClient.loop() (which
\* may run the callback), checkForCommand, and the deadline block
Loop ==
  /\ pc = "loop"
  /\ \E payload \in MqttPayloads \cup {NoMessage}, chunk \in SerialChunks,
        rnd \in BootRandomHex, ub \in UbOutcomes :
     \E h \in {IF payload # NoMessage
                 THEN incomingMqttHandler(CurMem, payload, rnd, TRUE, ub) ELSE NoDelivery(CurMem)} :
     \E c \in {IF h.restart THEN NoCommand(h.mem)
                 ELSE checkForCommand(h.mem, commandString, commandComplete, chunk, rnd, TRUE, ub)} :
     \E m \in {c.mem} :
     \E due \in {DeadlineDue(now, timeoutCount, timeoutMessageSent)} :
     \E out \in {IF due THEN CutoffOutputs(m.settingsAreValid, relay, led)
                   ELSE [relay |-> relay, led |-> led]} :
     \E report \in {due /\ TimeoutReportWanted(m.settingsAreValid)} :
     \E wrote \in {due /\ out.relay = RELAY_OFF} :
          /\ mqttUp \/ payload = NoMessage
          /\ IF h.restart \/ c.restart THEN Restart(m.eeprom)
             ELSE /\ SetMem(m)
                  /\ commandString' = c.commandString
                  /\ commandComplete' = c.commandComplete
                  /\ relay' = out.relay /\ led' = out.led
                  /\ tk' = [NoTick EXCEPT !.ticked = TRUE, !.fired = due,
                                          !.validAtCheck = m.settingsAreValid,
                                          !.sentAtCheck = timeoutMessageSent,
                                          !.expiredAtCheck = hist.reached,
                                          !.relayOff = IF wrote THEN 1 ELSE 0,
                                          !.ledOn = IF due /\ out.led = LED_ON THEN 1 ELSE 0,
                                          !.publish = h.replies, !.replies = h.replies]
                  /\ hist' = [hist EXCEPT !.cutoffTicks = IF wrote THEN Inc(@) ELSE @,
                                          !.relayDrops = IF relay = RELAY_ON /\ out.relay # RELAY_ON
                                                           THEN Inc(@) ELSE @]
                  /\ pc' = IF report THEN "cw" ELSE "loop_end"
                  /\ ret' = IF report THEN "loop_send" ELSE "none"
                  /\ elapsing' = TRUE
                  /\ UNCHANGED <<timeoutCount, timeoutMessageSent, wifiUp, mqttUp, retval, now, i,
                                 boot, probe>>

\* loop() after connectToWiFi returned: the timeout message is sent and the
\* latch takes the value sendMessage returns
LoopSend ==
  /\ pc = "loop_send"
  /\ \E rssiOk \in BOOLEAN, msgOk \in BOOLEAN :
     \E r \in {sendMessage(settings, mqttUp, MQTT_TOPIC_STATUS, settings.mqttTimeoutMessage,
                             rssiOk, msgOk)} :
     \E tried \in {r.publishes > 0} :
     \E good \in {tried /\ msgOk} :
          /\ mqttUp \/ (~rssiOk /\ ~msgOk)
          /\ timeoutMessageSent' = r.ret
          /\ tk' = [tk EXCEPT !.sendCalls = @ + 1, !.publish = @ + r.publishes,
                              !.toutPublish = @ + (IF tried THEN 1 ELSE 0),
                              !.toutOk = @ + (IF good THEN 1 ELSE 0)]
          /\ hist' = [hist EXCEPT !.toutOk = IF good THEN Inc(@) ELSE @,
                                  !.failed = @ \/ ~good,
                                  !.early = @ \/ (tried /\ ~hist.reached)]
  /\ pc' = "loop_end"
  /\ UNCHANGED <<memVars, serialVars, timeoutCount, relay, led, wifiUp, mqttUp, retval, now, ret, i,
                 elapsing, boot, probe>>

\* the end of one pass of loop()
LoopEnd ==
  /\ pc = "loop_end"
  /\ pc' = "loop"
  /\ tk' = NoTick
  /\ UNCHANGED <<memVars, serialVars, timeoutCount, timeoutMessageSent, relay, led, wifiUp, mqttUp,
                 retval, now, ret, i, elapsing, boot, hist, probe>>

\* the link associates or is lost
LinkChange ==
  /\ pc \notin {"boot", "loop_end"}
  /\ wifiUp' = ~wifiUp
  /\ UNCHANGED <<memVars, serialVars, timeoutCount, timeoutMessageSent, relay, led, mqttUp, retval,
                 now, pc, ret, i, elapsing, boot, tk, hist, probe>>

\* the broker session is lost
SessionDrop ==
  /\ mqttUp /\ pc # "loop_end"
  /\ mqttUp' = FALSE
  /\ UNCHANGED <<memVars, serialVars, timeoutCount, timeoutMessageSent, relay, led, wifiUp, retval,
                 now, pc, ret, i, elapsing, boot, tk, hist, probe>>

\* millis() moves on to the next reading.  Time passes in the steps that take
\* time; inside one connectToWiFi call no more than the call can block.
Advance ==
  /\ elapsing /\ pc # "loop_end"
  /\ pc = "loop" \/ ~U32Lt(U32(MaxBlockMillis), U32Sub(NextTime(now), now))
  /\ now' = NextTime(now)
  /\ elapsing' = FALSE
  /\ hist' = [hist EXCEPT !.reached = @ \/ U32Geq(NextTime(now), timeoutCount),
                          !.wrapped = @ \/ (hist.reached /\ U32Lt(NextTime(now), now))]
  /\ UNCHANGED <<memVars, serialVars, timeoutCount, timeoutMessageSent, relay, led, wifiUp, mqttUp,
                 retval, pc, ret, i, boot, tk, probe>>

Firmware == Setup \/ ConnectEnter \/ Poll \/ PollResult \/ Reconnect \/ SetupSend \/ Loop \/ LoopSend \/ LoopEnd

Next ==
  \/ Setup
  \/ ConnectEnter
  \/ Poll
  \/ PollResult
  \/ Reconnect
  \/ SetupSend
  \/ Loop
  \/ LoopSend
  \/ LoopEnd
  \/ LinkChange
  \/ SessionDrop
  \/ Advance

Spec == Init /\ [][Next]_vars

\* loop() is called again and again (the thread always takes its next step),
\* and the clock advances: every pass of loop() takes time, so a clock that
\* can move after each pass does move
FairSpec == Spec /\ WF_vars(Firmware) /\ SF_vars(Advance)

(***************************************************************************)
(* Properties of the runtime limiter.  AtLoopEnd is the point of a pass of *)
(* loop() where everything the deadline block does has been done; tk then  *)
(* describes that pass.                                                    *)
(***************************************************************************)
AtLoopEnd == pc = "loop_end" /\ tk.ticked

\* C1: once the deadline check has switched the relay off, no step of the
\* same boot (tick, command, connection or publish result, clock wraparound)
\* sets the relay output back to energized.
C1_RelayStaysOff == [][(relay = RELAY_OFF /\ boot' = boot) => relay' = RELAY_OFF]_vars

\* C1 witness: the relay is off, the clock has wrapped around to zero since,
\* and a pass of loop() has run after the wraparound
C1_Witness ==
  /\ AtLoopEnd /\ relay = RELAY_OFF /\ hist.reached
  /\ now = U32Zero /\ U32Gt(timeoutCount, U32Zero)

\* C2 as stated: on the tick where the deadline is found reached with the
\* configuration marked invalid, the relay is switched off and no link
\* association, no broker handshake and no publish at all is attempted.
C2_NoPublishAtAllWhenInvalid ==
  (AtLoopEnd /\ tk.fired /\ ~tk.validAtCheck)
    => (relay = RELAY_OFF /\ tk.assoc = 0 /\ tk.handshake = 0 /\ tk.publish = 0)

\* C2 amended: on the tick where the deadline is found reached with the
\* configuration marked invalid, the relay is switched off, connectToWiFi and
\* sendMessage are not called (no link association, no broker handshake, no
\* publish of the signal strength or of the timeout message); the only
\* publishes of that tick are replies to a command that mqttClient.loop()
\* delivered at the start of the tick.
C2_NoNetworkActionWhenInvalid ==
  (AtLoopEnd /\ tk.fired /\ ~tk.validAtCheck)
    => /\ relay = RELAY_OFF
       /\ tk.connCalls = 0 /\ tk.assoc = 0 /\ tk.handshake = 0
       /\ tk.sendCalls = 0 /\ tk.publish = tk.replies

\* C2 witness: the deadline was found reached with the configuration invalid,
\* on a tick that also answered a command received over MQTT
C2_Witness == AtLoopEnd /\ tk.fired /\ ~tk.validAtCheck /\ tk.replies = 1 /\ relay = RELAY_OFF

\* C3: timeoutMessageSent changes from false to true only in the step where
\* the publish of the timeout message returned success, and once true it is
\* not set back to false within the boot.
C3_LatchOnlyOnSuccess ==
  [][/\ (~timeoutMessageSent /\ timeoutMessageSent')
          => (pc = "loop_send" /\ mqttUp /\ tk'.toutOk = tk.toutOk + 1)
     /\ (timeoutMessageSent /\ boot' = boot) => timeoutMessageSent']_vars

\* C3 witness: the tick whose timeout publish succeeded has set the latch
C3_Witness == AtLoopEnd /\ timeoutMessageSent /\ tk.toutOk = 1 /\ ~tk.sentAtCheck

\* C4 as stated: in a boot where the timeout publish has failed, the relay-off
\* and indicator-on writes are performed on exactly one tick.
C4_CutoffWritesOnOneTick == hist.failed => hist.cutoffTicks = 1

\* C4 amended: in a boot where the timeout publish has failed, the relay
\* output has changed from energized to de-energized exactly once and is
\* de-energized; the relay-off and indicator-on writes themselves are repeated
\* on every retry tick, where they change nothing.
C4_RelayDropsOnce ==
  /\ hist.failed => (hist.relayDrops = 1 /\ relay = RELAY_OFF)
  /\ (AtLoopEnd /\ tk.fired) => (tk.relayOff = 1 /\ tk.ledOn = 1 /\ led = LED_ON)

\* C4 witness: a retry tick after a failed publish has repeated the writes
C4_Witness ==
  /\ AtLoopEnd /\ tk.fired /\ hist.failed /\ hist.cutoffTicks = MaxCount
  /\ hist.relayDrops = 1 /\ relay = RELAY_OFF

\* C5: within one boot the timeout message is never published before the
\* clock has reached the deadline, and it is published successfully at most
\* once.
C5_TimeoutPublishedAtMostOnce == hist.toutOk <= 1 /\ ~hist.early

\* C5 witness: a tick that ran after the successful publish, with the clock
\* at or past the deadline
C5_Witness ==
  /\ AtLoopEnd /\ tk.sentAtCheck /\ hist.toutOk = 1 /\ U32Geq(now, timeoutCount)

\* C6: when loop() keeps being called and the clock advances, a relay that is
\* energized is eventually no longer energized (switched off by the deadline
\* check, or released by a restart), whatever the configuration, the
\* connection and publish outcomes and the commands.
C6_RelayEventuallyOff == (relay = RELAY_ON) ~> (relay # RELAY_ON)

\* C6 witness: the relay was switched off with the configuration invalid and
\* no link
C6_Witness == relay = RELAY_OFF /\ ~settingsAreValid /\ ~wifiUp /\ pc = "loop"

\* C7: after expiry with a valid configuration, every tick on which
\* timeoutMessageSent is still false makes exactly one connect-and-publish
\* attempt, and a tick on which it is true makes none.
C7_OneAttemptPerTickUntilSent ==
  (AtLoopEnd /\ tk.expiredAtCheck /\ tk.validAtCheck)
    => IF tk.sentAtCheck THEN tk.connCalls = 0 /\ tk.sendCalls = 0
       ELSE tk.connCalls = 1 /\ tk.sendCalls = 1

\* C15: while the configuration is marked invalid, no link association and
\* no broker handshake is initiated: not at boot, not at deadline expiry, and
\* not when a command invalidates the configuration while connectToWiFi is
\* in its association-polling loop or just before its broker handshake.
C15_NoBringUpWhileInvalid ==
  [][(tk'.assoc > tk.assoc \/ tk'.handshake > tk.handshake) => settingsAreValid]_vars

\* setup() has just loaded the persisted record and checked it
SetupStep == pc = "boot" /\ pc' # "boot"

ConnectReturns == pc = "cwrec" /\ pc' \in {"setup_send", "loop_send"}

\* C20: whenever connectToWiFi is called while the link is already associated
\* and the broker session is active, it returns true and performs no
\* association attempt, no broker handshake and no subscribe, whatever the
\* outcome of earlier calls was.
C20_FastPathReturnsTrue ==
  [][(ConnectReturns /\ tk.fast /\ wifiUp /\ mqttUp)
       => (retval' = TRUE /\ tk'.assoc = 0 /\ tk'.handshake = 0)]_vars

\* C21: connectToWiFi returns false whenever its association attempt ends
\* without the link being associated, and true when it ends with the link
\* associated, whether the broker handshake that follows succeeds or fails.
C21_ReturnReportsLinkOnly ==
  [][(ConnectReturns /\ tk.ended # "none") => (retval' = (tk.ended = "up"))]_vars

\* C21 witness: connectToWiFi has returned true after an association that
\* succeeded and a broker handshake that failed
C21_Witness ==
  /\ pc \in {"setup_send", "loop_send"} /\ tk.ended = "up" /\ tk.handshake = 1
  /\ ~mqttUp /\ retval = TRUE

\* the link or the broker session is down while the configuration is valid
ConnectivityLost == settingsAreValid /\ (~wifiUp \/ ~mqttUp)

\* C23: whenever the configuration is valid and the link or the broker
\* session is down, a reconnection attempt (a call of connectToWiFi) is
\* eventually made on some later tick, unless the configuration has become
\* invalid meanwhile; this holds while the relay is still running, after
\* expiry while the timeout message is unsent, and after it has been sent.
C23_ReconnectEventually ==
  (pc = "loop" /\ ConnectivityLost) ~> (pc = "cw" \/ ~settingsAreValid)

\* C26: when the millisecond clock wraps around to zero after the deadline
\* has passed, the transition's actions (relay cutoff write, indicator on,
\* connect and timeout publish) are not executed again on any later tick,
\* also when timeoutMessageSent was still false at the wrap.
C26_NoActionsAfterWrap ==
  [][(pc = "loop" /\ hist.wrapped /\ pc' \in {"cw", "loop_end"})
       => (~tk'.fired /\ tk'.relayOff = 0 /\ tk'.ledOn = 0 /\ pc' # "cw")]_vars

(***************************************************************************)
(* A specification that boots the device once on every record of the       *)
(* bounded set used for saveSettings: power-on, then setup() up to the     *)
(* call of connectToWiFi.                                                  *)
(***************************************************************************)
InitBoot ==
  /\ eeprom \in SaveRecords
  /\ settings = conf /\ settingsAreValid = FALSE
  /\ commandString = <<>> /\ commandComplete = FALSE
  /\ timeoutCount = U32Zero /\ timeoutMessageSent = FALSE
  /\ relay = "INPUT" /\ led = "INPUT"
  /\ wifiUp = FALSE /\ mqttUp = FALSE /\ retval = TRUE
  /\ now = U32Zero /\ pc = "boot" /\ ret = "none" /\ i = 0 /\ elapsing = FALSE
  /\ boot = 1 /\ tk = NoTick /\ hist = NoHist /\ probe = NoProbe

SpecBoot == InitBoot /\ [][Setup]_vars

\* x divided by 1000: the quotient and the remainder, as integers
Quotient1000(x) == (x.hi \div 1000) * Half + (((x.hi % 1000) * Half + x.lo) \div 1000)
Remainder1000(x) == ((x.hi % 1000) * Half + x.lo) % 1000

\* C27: the deadline computed at boot equals the configured maxRuntime in
\* seconds times 1000, in milliseconds, for every maxRuntime value the record
\* can hold: the deadline divided by 1000 gives maxRuntime back exactly.
C27_DeadlineIsRuntimeTimes1000 ==
  pc # "boot"
    => /\ Remainder1000(timeoutCount) = 0
       /\ U32(Quotient1000(timeoutCount)) = settings.maxRuntime

(***************************************************************************)
(* The association polling loop of connectToWiFi.                          *)
(***************************************************************************)
ConnectDone == pc \in {"setup_send", "loop_send", "boot"}

\* C28: a connectToWiFi call that starts an association makes at most
\* WIFI_CONNECTION_ATTEMPTS (15) passes of the polling loop, has serviced
\* checkForCommand exactly once for each unsuccessful poll, leaves the loop only
\* when the link is up or after the 15th unsuccessful poll, and then returns
\* (or the device restarts on a serviced command): it never polls for ever.
C28_PollingBounded ==
  /\ [](pc \in {"poll", "cwres"}
         => (WIFI_CONNECTION_ATTEMPTS = 15 /\ i <= WIFI_CONNECTION_ATTEMPTS /\ tk.served = i))
  /\ [][(pc = "poll" /\ pc' = "cwres") => (wifiUp \/ i = WIFI_CONNECTION_ATTEMPTS)]_vars
  /\ ((pc = "poll") ~> ConnectDone)

\* the link never came up: the loop was left after 15 unsuccessful polls
C28_Witness == pc = "cwres" /\ ~wifiUp /\ i = WIFI_CONNECTION_ATTEMPTS /\ tk.served = 15 /\ tk.assoc = 1

(***************************************************************************)
(* A specification of the broker session: the link stays associated, the   *)
(* configuration is valid, and commands that change topicRoot arrive on    *)
(* the serial port and on the subscribed topic.  probe holds the topic the *)
(* session is subscribed to, the topicRoot at the last handshake, and the  *)
(* broker operations attempted since that handshake.  pc is                *)
(*   "sub_connect"  at the call of reconnect() in connectToWiFi            *)
(*   "sub_send"     at the sendMessage call after connectToWiFi            *)
(*   "sub_loop"     between two passes of loop()                           *)
(***************************************************************************)
MaxLog == 5
NoSend == [called |-> FALSE]
\* the log with the events added, kept to its first MaxLog entries
Logged(log, events) ==
  IF Len(log) + Len(events) <= MaxLog THEN log \o events
  ELSE SubSeq(log \o events, 1, MaxLog)
Publishes(n) == [k \in 1..n |-> "publish"]

SubChunks == {<<>>, N_topicRoot \o <<EQ, "x", "/", LF>>}
SubPayloads == {V_settings, N_topicRoot \o <<EQ, "y", "/">>}

InitSub ==
  /\ settings = ConfiguredSettings /\ settingsAreValid = TRUE /\ eeprom = ConfiguredSettings
  /\ probe = [phase |-> "session", subscribed |-> <<>>, root |-> <<>>, log |-> <<>>,
              send |-> NoSend]
  /\ commandString = <<>> /\ commandComplete = FALSE
  /\ timeoutCount = U32Mul(ConfiguredSettings.maxRuntime, 1000) /\ timeoutMessageSent = FALSE
  /\ relay = RELAY_ON /\ led = LED_OFF
  /\ wifiUp = TRUE /\ mqttUp = FALSE /\ retval = TRUE
  /\ now = U32Zero /\ pc = "sub_connect" /\ ret = "setup_send" /\ i = 0 /\ elapsing = FALSE
  /\ boot = 1
  /\ tk = NoTick /\ hist = NoHist

\* reconnect(): without a session the handshake, then the subscribe on success
\* or checkForCommand on failure; then mqttClient.loop(), which may run the
\* callback for a message on the subscribed topic.  None of the commands
\* followed here restarts the device.
SubReconnect ==
  /\ pc = "sub_connect"
  /\ \E ok \in BOOLEAN, chunk \in SubChunks, payload \in SubPayloads \cup {NoMessage},
        rnd \in BootRandomHex, ub \in UbOutcomes :
     \E attempt \in {~mqttUp} :
     \E up1 \in {IF attempt THEN ok ELSE mqttUp} :
     \E topic \in {IF attempt /\ ok THEN settings.mqttTopicRoot \o MQTT_TOPIC_COMMAND_REQUEST
                     ELSE probe.subscribed} :
     \E log0 \in {IF attempt /\ ok THEN <<"connect_ok", "subscribe">>
                    ELSE IF attempt THEN <<"connect_failed">> ELSE probe.log} :
     \E c \in {IF attempt /\ ~ok
                 THEN checkForCommand(CurMem, commandString, commandComplete, chunk, rnd, TRUE, ub)
                 ELSE NoCommand(CurMem)} :
     \E h \in {IF up1 /\ payload # NoMessage
                 THEN incomingMqttHandler(c.mem, payload, rnd, TRUE, ub) ELSE NoDelivery(c.mem)} :
          /\ attempt \/ ok
          /\ (attempt /\ ~ok) \/ chunk = <<>>
          /\ up1 \/ payload = NoMessage
          /\ ~c.restart /\ ~h.restart
          /\ SetMem(h.mem)
          /\ commandString' = c.commandString
          /\ commandComplete' = c.commandComplete
          /\ mqttUp' = up1
          /\ probe' = [probe EXCEPT !.subscribed = topic,
                                    !.root = IF attempt THEN settings.mqttTopicRoot ELSE @,
                                    !.log = Logged(log0, Publishes(h.replies))]
  /\ pc' = "sub_send"
  /\ UNCHANGED <<timeoutCount, timeoutMessageSent, relay, led, wifiUp, retval, now, ret, i,
                 elapsing, boot, tk, hist>>

\* the sendMessage call that follows connectToWiFi in setup() and in loop()
SubSend ==
  /\ pc = "sub_send"
  /\ \E rssiOk \in BOOLEAN, msgOk \in BOOLEAN :
     \E value \in {IF ret = "setup_send" THEN settings.mqttRunMessage
                     ELSE settings.mqttTimeoutMessage} :
     \E r \in {sendMessage(settings, mqttUp, MQTT_TOPIC_STATUS, value, rssiOk, msgOk)} :
          /\ mqttUp \/ (~rssiOk /\ ~msgOk)
          /\ probe' = [probe EXCEPT !.log = Logged(@, Publishes(r.publishes)),
                                    !.send = [called |-> TRUE, connected |-> mqttUp,
                                              root |-> settings.mqttTopicRoot,
                                              topic |-> MQTT_TOPIC_STATUS, value |-> value,
                                              rssiOk |-> rssiOk, msgOk |-> msgOk,
                                              ret |-> r.ret, sent |-> r.sent]]
  /\ pc' = "sub_loop" /\ ret' = "none"
  /\ UNCHANGED <<memVars, serialVars, timeoutCount, timeoutMessageSent, relay, led, wifiUp, mqttUp,
                 retval, now, i, elapsing, boot, tk, hist>>

\* one pass of loop(): mqttClient.loop(), checkForCommand, and, when the
\* deadline block is entered, on to connectToWiFi
SubLoop ==
  /\ pc = "sub_loop"
  /\ \E payload \in SubPayloads \cup {NoMessage}, chunk \in SubChunks, due \in BOOLEAN,
        rnd \in BootRandomHex, ub \in UbOutcomes :
     \E h \in {IF payload # NoMessage
                 THEN incomingMqttHandler(CurMem, payload, rnd, TRUE, ub) ELSE NoDelivery(CurMem)} :
     \E c \in {checkForCommand(h.mem, commandString, commandComplete, chunk, rnd, TRUE, ub)} :
          /\ mqttUp \/ payload = NoMessage
          /\ ~c.restart /\ ~h.restart
          /\ SetMem(c.mem)
          /\ commandString' = c.commandString
          /\ commandComplete' = c.commandComplete
          /\ probe' = [probe EXCEPT !.log = Logged(@, Publishes(h.replies))]
          /\ pc' = IF due THEN "sub_connect" ELSE "sub_loop"
          /\ ret' = IF due THEN "loop_send" ELSE "none"
  /\ UNCHANGED <<timeoutCount, timeoutMessageSent, relay, led, wifiUp, mqttUp, retval, now, i,
                 elapsing, boot, tk, hist>>

\* the broker session is lost, and its subscription with it
SubDrop ==
  /\ mqttUp
  /\ mqttUp' = FALSE
  /\ probe' = [probe EXCEPT !.subscribed = <<>>]
  /\ UNCHANGED <<memVars, serialVars, timeoutCount, timeoutMessageSent, relay, led, wifiUp, retval,
                 now, pc, ret, i, elapsing, boot, tk, hist>>

NextSub == SubReconnect \/ SubSend \/ SubLoop \/ SubDrop

SpecSub == InitSub /\ [][NextSub]_vars

\* the operations logged since the last handshake attempt
AfterHandshake(result) == probe.log # <<>> /\ probe.log[1] = result
CommandTopic(root) == root \o MQTT_TOPIC_COMMAND_REQUEST

\* C29: a successful broker handshake is followed at once, before any publish,
\* by exactly one subscribe, to the topicRoot of that moment followed by
\* "command"; a failed handshake is followed by no subscribe; and whenever the
\* session is active the subscribed topic is the current topicRoot followed by
\* "command", also after topicRoot was changed by a command.
C29_SubscribedToCurrentTopicRoot ==
  /\ AfterHandshake("connect_ok")
       => /\ Len(probe.log) >= 2 /\ probe.log[2] = "subscribe"
          /\ \A k \in 3..Len(probe.log) : probe.log[k] = "publish"
  /\ AfterHandshake("connect_failed")
       => \A k \in 2..Len(probe.log) : probe.log[k] = "publish"
  /\ mqttUp => probe.subscribed = CommandTopic(probe.root)
  /\ mqttUp => probe.subscribed = CommandTopic(settings.mqttTopicRoot)

SendDone == probe.phase = "session" /\ probe.send.called

\* C30: a sendMessage call made with the broker session connected attempts two
\* publishes, both retained: first the rssi reading to topicRoot followed by
\* "rssi", then the given message to topicRoot followed by the given topic;
\* it returns the result of the second publish whatever the first one did.
\* A call made without a session attempts no publish and returns false.
C30_SendMessagePublishes ==
  SendDone
    => IF probe.send.connected
         THEN /\ Len(probe.send.sent) = 2
              /\ probe.send.sent[1].topic = probe.send.root \o MQTT_TOPIC_RSSI
              /\ probe.send.sent[1].retain
              /\ probe.send.sent[2] = Publication(probe.send.root \o probe.send.topic,
                                                  probe.send.value, TRUE)
              /\ probe.send.ret = probe.send.msgOk
         ELSE probe.send.sent = <<>> /\ probe.send.ret = FALSE

\* the rssi publish failed, the message publish succeeded, the call returned true
C30_Witness ==
  /\ SendDone /\ probe.send.connected /\ ~probe.send.rssiOk /\ probe.send.msgOk
  /\ probe.send.ret /\ probe.send.value = DEFAULT_MQTT_TIMEOUT_MESSAGE

(***************************************************************************)
(* A specification of the outputs of loop(): the deadline block and the    *)
(* block that flashes the warning indicator, pass after pass, with a clock *)
(* that wraps around.  No command arrives; the configuration is valid or   *)
(* not from the start; connectToWiFi yields a broker session or none.      *)
(* probe holds the build's FLASH_LED, the statics of the flash block, and  *)
(* what the last pass did.                                                 *)
(***************************************************************************)
\* FLASH_LED is set to true or to false, depending on the controller built
FlashLedBuilds == BOOLEAN
FlashPeriodMillis == 250

\* the clock readings followed in this specification
LedTimes == <<U32Zero, U32(4900), U32(5000), U32(5100), U32(5300), U32(5600),
              U32Sub(U32Max, U32(200)), U32Max>>
LedTimeIndex(t) == CHOOSE k \in 1..Len(LedTimes) : LedTimes[k] = t
NextLedTime(t) == LedTimes[(LedTimeIndex(t) % Len(LedTimes)) + 1]

\* the level digitalWrite gives a pin for a boolean, and the boolean a level
\* initialises
PinLevel(b) == IF b THEN "HIGH" ELSE "LOW"
LevelAsBoolean(level) == level = "HIGH"

\* a variant of the flash test that does not look at the latch
FlashDue_NoLatch(flash, t, deadline, nextFlashTime, sent) ==
  flash /\ U32Geq(t, deadline) /\ U32Gt(t, nextFlashTime)

\* the test of the flash block
FlashDue(flash, t, deadline, nextFlashTime, sent) ==
  flash /\ U32Geq(t, deadline) /\ U32Gt(t, nextFlashTime) /\ sent

InitLed ==
  /\ settingsAreValid \in BOOLEAN
  /\ settings = [ConfiguredSettings EXCEPT !.maxRuntime = U32(5),
                   !.validConfig = IF settingsAreValid THEN VALID_SETTINGS_FLAG ELSE 0]
  /\ eeprom = settings
  /\ probe \in [phase : {"led"}, FLASH_LED : FlashLedBuilds, started : {FALSE},
                nextFlashTime : {U32Zero}, warning_led_state : {LevelAsBoolean(LED_ON)},
                ticked : {FALSE}, toggled : {FALSE}, expired : {FALSE}]
  /\ commandString = <<>> /\ commandComplete = FALSE
  /\ timeoutCount = U32Mul(settings.maxRuntime, 1000) /\ timeoutMessageSent = FALSE
  /\ relay = RELAY_ON /\ led = LED_OFF
  /\ wifiUp \in BOOLEAN /\ mqttUp = wifiUp /\ retval = wifiUp
  /\ now = U32Zero /\ pc = "led_loop" /\ ret = "none" /\ i = 0 /\ elapsing = FALSE /\ boot = 1
  /\ tk = NoTick /\ hist = NoHist

\* one pass of loop(): the deadline block (with connectToWiFi, which may take
\* time and ends with a broker session or without, and sendMessage), then,
\* in a build with FLASH_LED, the flash block
LedTick ==
  /\ pc = "led_loop"
  /\ \E up \in BOOLEAN, rssiOk \in BOOLEAN, msgOk \in BOOLEAN, blocked \in BOOLEAN :
     \E due \in {DeadlineDue(now, timeoutCount, timeoutMessageSent)} :
     \E out \in {IF due THEN CutoffOutputs(settingsAreValid, relay, led)
                   ELSE [relay |-> relay, led |-> led]} :
     \E report \in {due /\ TimeoutReportWanted(settingsAreValid)} :
     \E r \in {IF report THEN sendMessage(settings, up, MQTT_TOPIC_STATUS,
                                          settings.mqttTimeoutMessage, rssiOk, msgOk)
                 ELSE [ret |-> timeoutMessageSent, publishes |-> 0]} :
     \E t2 \in {IF report /\ blocked THEN NextLedTime(now) ELSE now} :
     \E next0 \in {IF probe.started THEN probe.nextFlashTime
                     ELSE U32Add(t2, FlashPeriodMillis)} :
     \E flash \in {FlashDue(probe.FLASH_LED, t2, timeoutCount, next0, r.ret)} :
          /\ report \/ (up = mqttUp /\ ~blocked)
          /\ up \/ (~rssiOk /\ ~msgOk)
          /\ blocked => ~U32Lt(U32(MaxBlockMillis), U32Sub(NextLedTime(now), now))
          /\ timeoutMessageSent' = r.ret
          /\ relay' = out.relay
          /\ led' = IF flash THEN PinLevel(probe.warning_led_state) ELSE out.led
          /\ mqttUp' = up /\ wifiUp' = (wifiUp \/ up)
          /\ now' = t2
          /\ probe' = [probe EXCEPT !.started = @ \/ probe.FLASH_LED,
                                    !.nextFlashTime =
                                       IF flash THEN U32Add(t2, FlashPeriodMillis)
                                       ELSE IF probe.FLASH_LED THEN next0 ELSE @,
                                    !.warning_led_state = IF flash THEN ~@ ELSE @,
                                    !.ticked = TRUE,
                                    !.toggled = flash,
                                    !.expired = @ \/ U32Geq(now, timeoutCount)]
  /\ UNCHANGED <<memVars, serialVars, timeoutCount, retval, pc, ret, i, elapsing, boot, tk, hist>>

\* millis() moves on to the next reading
LedAdvance ==
  /\ pc = "led_loop"
  /\ now' = NextLedTime(now)
  /\ UNCHANGED <<memVars, serialVars, timeoutCount, timeoutMessageSent, relay, led, wifiUp, mqttUp,
                 retval, pc, ret, i, elapsing, boot, tk, hist, probe>>

NextLed == LedTick \/ LedAdvance

SpecLed == InitLed /\ [][NextLed]_vars

\* C31: between two passes of loop(): while the relay is energized the warning
\* indicator is off and timeoutMessageSent is false; once a pass has found the
\* deadline reached the indicator is on as long as timeoutMessageSent is
\* false; and a pass toggles the indicator (flash block) only when
\* timeoutMessageSent is true.
C31_IndicatorFollowsState ==
  probe.phase = "led"
    => /\ relay = RELAY_ON => (led = LED_OFF /\ ~timeoutMessageSent)
       /\ (probe.expired /\ ~timeoutMessageSent) => (led = LED_ON /\ relay = RELAY_OFF)
       /\ probe.toggled => timeoutMessageSent

\* the indicator was switched off by the flash block after the message was sent
C31_Witness ==
  /\ probe.phase = "led" /\ probe.toggled /\ timeoutMessageSent
  /\ led = LED_OFF /\ relay = RELAY_OFF

(***************************************************************************)
(* The validity marker and the derived flag.                               *)
(***************************************************************************)
MarkerSet == settings.validConfig = VALID_SETTINGS_FLAG

\* C32: in every state after loadSettings has run (between the steps of the
\* firmware, each command being one whole step) the marker equals
\* VALID_SETTINGS_FLAG exactly when settingsAreValid is true.
C32_MarkerIffFlag == pc # "boot" => (MarkerSet <=> settingsAreValid)

\* a configured record that a later command (ssid= with no value) made
\* invalid: marker 0 and flag false, in memory and in flash
C32_Witness ==
  /\ pc = "loop" /\ ~settingsAreValid /\ settings.validConfig = 0
  /\ settings.ssid = <<>> /\ settings.brokerAddress = ConfiguredSettings.brokerAddress
  /\ eeprom = settings

(***************************************************************************)
(* The record in flash and the record in memory.                           *)
(***************************************************************************)
BootDone == probe.phase = "none" /\ pc # "boot"

NamedField(n) ==
  CASE n = N_ssid -> "ssid"
    [] n = N_wifipass -> "wifiPassword"
    [] n = N_broker -> "brokerAddress"
    [] n = N_userName -> "mqttUsername"
    [] n = N_userPass -> "mqttUserPassword"
    [] n = N_topicRoot -> "mqttTopicRoot"
    [] n = N_runMessage -> "mqttRunMessage"
    [] n = N_timeoutMessage -> "mqttTimeoutMessage"
    [] n = N_lwtMessage -> "mqttLWTMessage"
    [] n = N_brokerPort -> "brokerPort"
    [] n = N_maxRuntime -> "maxRuntime"
    [] n = N_debug -> "debug"

\* by how much the value is longer than the array of the field
CopyExcess == {-1, 0, 1, 2}
CopyLines ==
  {n \o <<EQ>> \o Fill(TextCapacity[NamedField(n)] + d) : n \in TextFieldNames, d \in CopyExcess}
CopyImages ==
  {ConfiguredSettings, [ConfiguredSettings EXCEPT !.mqttUsername = <<"u">>, !.maxRuntime = U32(5)]}

InitCopy ==
  /\ settings \in CopyImages
  /\ settingsAreValid = (settings.validConfig = VALID_SETTINGS_FLAG)
  /\ eeprom = settings
  /\ probe \in [phase : {"input"}, cmd : CopyLines, rnd : {<<"a","1">>},
                commitOk : BOOLEAN, ub : {"benign"}]
  /\ commandString = <<>> /\ commandComplete = FALSE
  /\ timeoutCount = U32Mul(settings.maxRuntime, 1000)
  /\ timeoutMessageSent = FALSE
  /\ relay = RELAY_ON /\ led = LED_OFF
  /\ wifiUp = FALSE /\ mqttUp = FALSE /\ retval = TRUE
  /\ now = U32Zero /\ pc = "command" /\ ret = "none" /\ i = 0 /\ elapsing = FALSE /\ boot = 1
  /\ tk = NoTick /\ hist = NoHist

SpecCopy == InitCopy /\ [][NextCmd]_vars

FieldCommandDone ==
  CmdDone /\ HasSeparator(probe.cmd) /\ LineName(probe.cmd) \in FieldNames
OtherFields == (DOMAIN settings) \ {NamedField(LineName(probe.cmd)), "validConfig", "mqttClientId"}

\* C34: a field-setting command changes the field it names, the validity
\* marker and the derived flag, and the client identifier when that was
\* empty; every other field of the record is as it was before the command,
\* also when the value is longer than the array of the named field.
C34_OnlyNamedFieldChanges ==
  FieldCommandDone
    => /\ \A f \in OtherFields : settings[f] = probe.before.settings[f]
       /\ probe.before.settings.mqttClientId # <<>>
            => settings.mqttClientId = probe.before.settings.mqttClientId

====
